---- MODULE Spec2Model ----
(***************************************************************************)
(* Model of the churn calculator's HubSpot synchronisation pipeline       *)
(* (src/src/utils/hubspot.ts).                                             *)
(*                                                                         *)
(* A caller p invokes submitToHubSpot; run[p] holds the locals of its      *)
(* current invocation.  One action is one attempt of a remote operation    *)
(* (the request and its response), or one backoff sleep.  The CRM is the   *)
(* set `contacts`; the responses of the remote endpoints are chosen        *)
(* nondeterministically among the statuses the CRM state allows and the    *)
(* failures any request can meet.  A failed request has no effect on the   *)
(* CRM.  Strings are sequences of one-character strings, so that trim()    *)
(* and toLowerCase() are computed.                                         *)
(***************************************************************************)
EXTENDS Integers, Sequences, FiniteSets, TLC

\* ------------------------------------------------------------------ bounds

\* Invocations of submitToHubSpot made, one after the other, in a behaviour.
MaxRuns == 2

\* Submissions the caller of FlowSpec makes, and the modal of ModalSpec.
MaxFlows == 1

\* Backoffs the two runs of ConcSpec sleep, taken together.
MaxBackoffs == 2

\* ------------------------------------------------------- program constants

MAX_ATTEMPTS == 3
BASE_BACKOFF_MS == 500
DEAL_THRESHOLD == 50000

\* --------------------------------------------------------------- callers

\* The callers of submitToHubSpot.  Under Spec only Caller submits, one
\* invocation after the other; the second caller is for concurrent runs.
Procs == {"p1", "p2"}
Caller == "p1"

VARIABLES
    env,        \* import.meta.env: which settings are configured
    contacts,   \* the CRM's contact records
    started,    \* invocations of submitToHubSpot so far
    run,        \* per caller: the locals of its current invocation
    calculatorResults,  \* the calculatorResults the caller passes on
    deal,       \* the locals of the invocation of createHubSpotDeal
    enroll,     \* the locals of the invocation of triggerEmailSequence
    calc,       \* the calculator: the inputs and results of its last call
    lead,       \* buildContactProperties: the score and stage it last derived
    modal       \* the state of the EmailCapture component

\* What submitToHubSpot neither reads nor writes.
others == <<calculatorResults, deal, enroll, calc, lead, modal>>

vars == <<env, contacts, started, run, calculatorResults, deal, enroll, calc, lead,
         modal>>

\* ------------------------------------------------------------- strings

SPACE == " "

ToLowerChar(c) ==
    IF c = "A" THEN "a" ELSE IF c = "B" THEN "b" ELSE c

ToLowerCase(s) == [i \in 1..Len(s) |-> ToLowerChar(s[i])]

RECURSIVE TrimStart(_)
TrimStart(s) ==
    IF s # <<>> /\ Head(s) = SPACE THEN TrimStart(Tail(s)) ELSE s

RECURSIVE TrimEnd(_)
TrimEnd(s) ==
    IF s # <<>> /\ s[Len(s)] = SPACE THEN TrimEnd(SubSeq(s, 1, Len(s) - 1)) ELSE s

Trim(s) == TrimEnd(TrimStart(s))

\* The values of formData.email a caller may submit.
Emails == { <<>>, <<"a">>, <<SPACE, "A">> }

\* ------------------------------------------------------------- errors

NoError == [type |-> "none", status |-> 0]
HubSpotApiError(status) == [type |-> "HubSpotApiError", status |-> status]
NetworkError == [type |-> "TypeError", status |-> 0]
ConfigError == [type |-> "Error", status |-> 0]
EmailRequiredError == [type |-> "Error", status |-> 1]

\* ------------------------------------------------------------ responses

\* What fetch() yields: a response with a status, or no response at all.
Response(status) == [transport |-> "ok", status |-> status]
NoResponse == [transport |-> "failed", status |-> 0]

ResponseOk(resp) == resp.transport = "ok" /\ resp.status >= 200 /\ resp.status <= 299

\* The failures any request can meet, whatever the CRM holds.
FailStatuses == {400, 404, 429, 503}
Failures == {Response(s) : s \in FailStatuses} \cup {NoResponse}


\* ------------------------------------------------------------ the CRM

\* GET /crm/v3/objects/contacts/{key}?idProperty=email: the contacts whose
\* email property is the key.
Find(key) == { c \in contacts : c.email = key }

\* The email property identifies a contact: the CRM answers a lookup with the
\* contact (200) or with 404, and refuses a write that would give two
\* contacts the same email (409).
LookupResponses(key) ==
    (IF Find(key) # {} THEN {Response(200)} ELSE {Response(404)}) \cup Failures

CreateResponses(email) ==
    (IF Find(email) # {} THEN {Response(409)} ELSE {Response(201)}) \cup Failures

UpdateResponses(id, email) ==
    (IF \E c \in contacts : c.id # id /\ c.email = email
        THEN {Response(409)}
        ELSE IF \E c \in contacts : c.id = id THEN {Response(200)} ELSE {Response(404)})
    \cup Failures

OtherResponses == {Response(200)} \cup Failures

NewId == Cardinality(contacts) + 1

\* --------------------------------------------------------- retry policy

RECURSIVE Pow2(_)
Pow2(n) == IF n <= 0 THEN 1 ELSE 2 * Pow2(n - 1)

\* shouldRetry without the rate-limit status.
shouldRetryNo429(error) ==
    IF error.type = "HubSpotApiError"
        THEN error.status >= 500
        ELSE error.type = "TypeError"

shouldRetry(error) ==
    IF error.type = "HubSpotApiError"
        THEN error.status = 429 \/ error.status >= 500
        ELSE IF error.type = "TypeError" THEN TRUE ELSE FALSE

\* The locals of one withRetry call: the operation it runs (op), attempt,
\* lastError, the backoffs slept (sleeps), what each attempt gave (outcomes:
\* [ok, error, status], status being the response's, 0 with none), where the
\* call stands (wr: "call" about to attempt, "sleeping", "returned",
\* "thrown") and the error it threw.
FreshRetry ==
    [op |-> "", attempt |-> 0, lastError |-> NoError, sleeps |-> <<>>,
     outcomes |-> <<>>, wr |-> "call", thrown |-> NoError]

\* withRetry with its locals declared inside the loop: every pass is a
\* first attempt.
BeginAlwaysFresh(w, op) == [FreshRetry EXCEPT !.op = op]

\* A withRetry call for op begins with fresh locals; w is what the last call
\* left, or the call for op in progress.
Begin(w, op) ==
    IF w.wr \in {"returned", "thrown"} \/ w.attempt = 0
        THEN [FreshRetry EXCEPT !.op = op]
        ELSE w

\* withRetry giving up after maxAttempts only when the loop tests it: a
\* backoff is slept after the last attempt too.
withRetrySleepsLast(w, res) ==
    LET attempt == w.attempt + 1
        w1 == [w EXCEPT !.attempt = attempt,
                        !.outcomes = Append(@, [ok |-> res.ok, error |-> res.error,
                                               status |-> res.status])]
    IN  IF res.ok
            THEN [w1 EXCEPT !.wr = "returned"]
            ELSE IF ~shouldRetry(res.error)
                THEN [w1 EXCEPT !.lastError = res.error, !.wr = "thrown",
                                !.thrown = res.error]
                ELSE [w1 EXCEPT !.lastError = res.error, !.wr = "sleeping",
                                !.sleeps = Append(@, BASE_BACKOFF_MS * Pow2(attempt - 1))]

\* One pass of withRetry's loop, res being what operation(attempt) gave:
\* [ok, error, status].
withRetry(w, res) ==
    LET attempt == w.attempt + 1
        w1 == [w EXCEPT !.attempt = attempt,
                        !.outcomes = Append(@, [ok |-> res.ok, error |-> res.error,
                                               status |-> res.status])]
    IN  IF res.ok
            THEN [w1 EXCEPT !.wr = "returned"]
            ELSE IF ~shouldRetry(res.error) \/ attempt >= MAX_ATTEMPTS
                THEN [w1 EXCEPT !.lastError = res.error, !.wr = "thrown",
                                !.thrown = res.error]
                ELSE [w1 EXCEPT !.lastError = res.error, !.wr = "sleeping",
                                !.sleeps = Append(@, BASE_BACKOFF_MS * Pow2(attempt - 1))]

\* The loop starting over after a sleep, its attempts forgotten.
AfterSleepStartsOver(w) == [w EXCEPT !.wr = "call", !.attempt = 0]

\* sleep(backoff) is over: the loop tests attempt < maxAttempts again.
AfterSleep(w) ==
    IF w.attempt < MAX_ATTEMPTS
        THEN [w EXCEPT !.wr = "call"]
        ELSE [w EXCEPT !.wr = "thrown", !.thrown = w.lastError]

\* ------------------------------------------------------- request client

\* hubspotRequest with no test of the token: the request is sent without one.
hubspotRequestNoTokenCheck(resp) ==
    IF resp.transport = "failed"
        THEN [ok |-> FALSE, error |-> NetworkError, sent |-> TRUE, status |-> 0]
        ELSE IF ~ResponseOk(resp)
            THEN [ok |-> FALSE, error |-> HubSpotApiError(resp.status),
                  sent |-> TRUE, status |-> resp.status]
            ELSE [ok |-> TRUE, error |-> NoError, sent |-> TRUE,
                  status |-> resp.status]

\* hubspotRequest, resp being what fetch yields if the request is sent:
\* [ok, error, sent, status].
hubspotRequest(resp) ==
    IF ~env.token
        THEN [ok |-> FALSE, error |-> ConfigError, sent |-> FALSE, status |-> 0]
        ELSE IF resp.transport = "failed"
            THEN [ok |-> FALSE, error |-> NetworkError, sent |-> TRUE, status |-> 0]
            ELSE IF ~ResponseOk(resp)
                THEN [ok |-> FALSE, error |-> HubSpotApiError(resp.status),
                      sent |-> TRUE, status |-> resp.status]
                ELSE [ok |-> TRUE, error |-> NoError, sent |-> TRUE,
                      status |-> resp.status]

\* The lookup with no catch of the 404: it is an error like any other.
lookupContactThrows404(resp) ==
    LET r == hubspotRequest(resp)
    IN  [ok |-> r.ok, error |-> r.error, sent |-> r.sent,
         status |-> r.status, found |-> r.ok]

\* The lookup operation of upsertContact: a 404 is "no contact", not an error.
lookupContact(resp) ==
    LET r == hubspotRequest(resp)
    IN  IF ~r.ok /\ r.error.type = "HubSpotApiError" /\ r.error.status = 404
            THEN [ok |-> TRUE, error |-> NoError, sent |-> r.sent,
                  status |-> r.status, found |-> FALSE]
            ELSE [ok |-> r.ok, error |-> r.error, sent |-> r.sent,
                  status |-> r.status, found |-> r.ok]

\* The operation of submitFormSubmission: a plain fetch of the forms endpoint.
formFetch(resp) ==
    IF resp.transport = "failed"
        THEN [ok |-> FALSE, error |-> NetworkError, sent |-> TRUE, status |-> 0]
        ELSE IF ~ResponseOk(resp)
            THEN [ok |-> FALSE, error |-> HubSpotApiError(resp.status),
                  sent |-> TRUE, status |-> resp.status]
            ELSE [ok |-> TRUE, error |-> NoError, sent |-> TRUE,
                  status |-> resp.status]

\* The test of the form settings looking at the portal id alone.
FormConfiguredPortalOnly == env.portalId

FormConfigured == env.portalId /\ env.formId

\* ------------------------------------------------------------- the run

Ops == {"lookup", "update", "create", "list", "form", "fallback"}

MsgSaved == "Contact saved to HubSpot successfully."
MsgEmailSaved == "We saved your email while we resolve a HubSpot connection hiccup."
MsgNotSaved == "We could not save your details. Please try again later or reach out to hello@churnguard.ai."

NoResult == [success |-> FALSE, contactId |-> 0, fallbackUsed |-> FALSE, message |-> ""]

\* The locals of one invocation of submitToHubSpot.
\*   pc         the operation it is at: "lookup", "update", "create" (the
\*              three of upsertContact), "list", "form", "fallback"; or
\*              "idle", "done" (it returned result), "raised" (it threw)
\*   formEmail  formData.email;  email: upsertContact's lookup key
\*   w          the locals of the withRetry call in progress, or of the last
\*   existing   existingContact's id (0: none);  contactId: upsertContact's value
\*   patchId    the contact id the PATCH requests were sent for
\*   tries      invocations of each operation;  sent: requests sent by each
\*   listFailed the list request's failure was caught and logged
\*   formDone   submitFormSubmission returned
\*   caught     the error submitToHubSpot's catch block received
\*   fbOk       the fallback request was sent and its response was successful
IdleRun ==
    [pc |-> "idle", formEmail |-> <<>>, email |-> <<>>, w |-> FreshRetry,
     existing |-> 0, contactId |-> 0, patchId |-> 0,
     tries |-> [o \in Ops |-> 0], sent |-> [o \in Ops |-> 0],
     listFailed |-> FALSE, formDone |-> FALSE, caught |-> NoError, fbOk |-> FALSE,
     result |-> NoResult]

\* One more invocation of operation op, which sent a request or did not.
Count(r, op, res) ==
    [r EXCEPT !.tries[op] = @ + 1, !.sent[op] = @ + (IF res.sent THEN 1 ELSE 0)]

\* A catch block that returns the failure record at once, with no fallback.
CatchNoFallback(r, error) ==
    [r EXCEPT !.pc = "done", !.caught = error,
              !.result = [success |-> FALSE, contactId |-> 0, fallbackUsed |-> TRUE,
                          message |-> MsgEmailSaved]]

\* submitToHubSpot's catch block receives the error: the fallback is next.
Catch(r, error) == [r EXCEPT !.pc = "fallback", !.caught = error]

\* The success record with the contact id left out.
SucceedNoContactId(r) ==
    [r EXCEPT !.pc = "done", !.formDone = TRUE,
              !.result = [success |-> TRUE, contactId |-> 0,
                          fallbackUsed |-> FALSE, message |-> MsgSaved]]

\* submitToHubSpot's try block ran to its end.
Succeed(r) ==
    [r EXCEPT !.pc = "done", !.formDone = TRUE,
              !.result = [success |-> TRUE, contactId |-> r.contactId,
                          fallbackUsed |-> FALSE, message |-> MsgSaved]]

\* addContactToList with no .catch: the error goes on to submitToHubSpot.
listNoCatch(r, error) == [r EXCEPT !.pc = "fallback", !.caught = error]

\* addContactToList's .catch handler: the error is logged, the call returns.
listCatch(r, error) == [r EXCEPT !.pc = "form", !.listFailed = TRUE]

\* upsertContact going on to the create whatever the lookup returned.
afterLookupAlwaysCreate(r, found, id) ==
    IF found
        THEN [r EXCEPT !.existing = id, !.pc = "create"]
        ELSE [r EXCEPT !.pc = "create"]

\* upsertContact returning the contact the lookup found as it is, with no
\* update and no id handed on.
afterLookupSkipWrite(r, found, id) ==
    IF found
        THEN [r EXCEPT !.existing = id, !.pc = "list"]
        ELSE [r EXCEPT !.pc = "create"]

\* upsertContact after its lookup: the update of the contact the lookup
\* returned (id), or the create.
afterLookup(r, found, id) ==
    IF found
        THEN [r EXCEPT !.existing = id, !.pc = "update"]
        ELSE [r EXCEPT !.pc = "create"]

\* upsertContact going on to the create when its lookup threw.
ThrownLookupGoesOn(r) ==
    IF r.pc = "list" THEN listCatch(r, r.w.thrown)
    ELSE IF r.pc = "lookup" THEN [r EXCEPT !.pc = "create"]
    ELSE Catch(r, r.w.thrown)

\* A withRetry call threw r.w.thrown to the operation the run is at.
Thrown(r) ==
    IF r.pc = "list" THEN listCatch(r, r.w.thrown) ELSE Catch(r, r.w.thrown)

\* ------------------------------------------------------------- numbers

\* A JavaScript number is modelled by the rational it stands for: <<n, d>>
\* in lowest terms, d > 0.  <<>> is undefined (an optional field left out).
Undefined == <<>>

Abs(n) == IF n < 0 THEN -n ELSE n

RECURSIVE Gcd(_, _)
Gcd(a, b) == IF b = 0 THEN a ELSE Gcd(b, a % b)

Num(n, d) ==
    LET g == Gcd(Abs(n), d)
    IN  <<n \div g, d \div g>>

Whole(n) == <<n, 1>>

\* x * y, cancelling first so that only the product's own size counts.
Mul(x, y) ==
    LET g1 == Gcd(Abs(x[1]), y[2])
        g2 == Gcd(Abs(y[1]), x[2])
    IN  IF x[1] = 0 \/ y[1] = 0
            THEN <<0, 1>>
            ELSE <<(x[1] \div g1) * (y[1] \div g2), (x[2] \div g2) * (y[2] \div g1)>>

Add(x, y) ==
    LET g == Gcd(x[2], y[2])
    IN  Num(x[1] * (y[2] \div g) + y[1] * (x[2] \div g), (x[2] \div g) * y[2])

Neg(x) == <<-x[1], x[2]>>

Sub(x, y) == Add(x, Neg(y))

Leq(x, y) == x[1] * y[2] <= y[1] * x[2]

Less(x, y) == x[1] * y[2] < y[1] * x[2]

\* Math.max(...years), years a non-empty list of whole numbers.
RECURSIVE Max(_)
Max(years) ==
    IF Len(years) = 1
        THEN years[1]
        ELSE LET m == Max(Tail(years))
             IN  IF years[1] >= m THEN years[1] ELSE m

DigitChars == <<"0", "1", "2", "3", "4", "5", "6", "7", "8", "9">>

\* String(n) for a whole number n >= 0, as a sequence of characters.
RECURSIVE Digits(_)
Digits(n) ==
    IF n < 10
        THEN <<DigitChars[n + 1]>>
        ELSE Append(Digits(n \div 10), DigitChars[(n % 10) + 1])

\* x.toFixed(2) for x >= 0: x rounded to the nearest hundredth, written with
\* two decimals.
toFixed2(x) ==
    LET scaled == x[1] * 100
        floor == scaled \div x[2]
        hundredths == IF 2 * (scaled % x[2]) >= x[2] THEN floor + 1 ELSE floor
    IN  Digits(hundredths \div 100)
            \o <<".", DigitChars[((hundredths % 100) \div 10) + 1],
                 DigitChars[(hundredths % 10) + 1]>>

\* ---------------------------------------------------------- the calculator

toDecimal(percentage) == Mul(percentage, <<1, 100>>)

\* applyGrossMargin taking a margin left out for a margin of 0.
applyGrossMarginAbsentIsZero(value, grossMargin) ==
    IF grossMargin = Undefined THEN <<0, 1>> ELSE Mul(value, toDecimal(grossMargin))

applyGrossMargin(value, grossMargin) ==
    IF grossMargin = Undefined THEN value ELSE Mul(value, toDecimal(grossMargin))

calculateAnnualRevenueLost(inputs) ==
    LET churnRateDecimal == toDecimal(inputs.churnRate)
        lostCustomers == Mul(inputs.numberOfCustomers, churnRateDecimal)
        annualRevenuePerCustomer == Mul(inputs.averageOrderValue, inputs.purchaseFrequency)
        annualRevenueLost == Mul(lostCustomers, annualRevenuePerCustomer)
    IN  applyGrossMargin(annualRevenueLost, inputs.grossMargin)

\* The loop with the customer base never reduced: no compounding.
RECURSIVE ProjectYearsNoCompounding(_, _, _, _, _)
ProjectYearsNoCompounding(inputs, targets, maxYear, year, st) ==
    IF year > maxYear
        THEN st.projections
        ELSE LET lostCustomersThisYear ==
                     Mul(st.remainingCustomers, toDecimal(inputs.churnRate))
                 revenueLostThisYear ==
                     Mul(lostCustomersThisYear,
                         Mul(inputs.averageOrderValue, inputs.purchaseFrequency))
                 cumulativeLoss ==
                     Add(st.cumulativeLoss,
                         applyGrossMargin(revenueLostThisYear, inputs.grossMargin))
             IN  ProjectYearsNoCompounding(inputs, targets, maxYear, year + 1,
                    [remainingCustomers |-> st.remainingCustomers,
                     cumulativeLoss |-> cumulativeLoss,
                     projections |->
                        IF year \in targets
                            THEN (year :> cumulativeLoss) @@ st.projections
                            ELSE st.projections])

\* The loop recording each year's loss in place of the running total.
RECURSIVE ProjectYearsNotCumulative(_, _, _, _, _)
ProjectYearsNotCumulative(inputs, targets, maxYear, year, st) ==
    IF year > maxYear
        THEN st.projections
        ELSE LET lostCustomersThisYear ==
                     Mul(st.remainingCustomers, toDecimal(inputs.churnRate))
                 revenueLostThisYear ==
                     Mul(lostCustomersThisYear,
                         Mul(inputs.averageOrderValue, inputs.purchaseFrequency))
                 cumulativeLoss == applyGrossMargin(revenueLostThisYear, inputs.grossMargin)
             IN  ProjectYearsNotCumulative(inputs, targets, maxYear, year + 1,
                    [remainingCustomers |->
                        Sub(st.remainingCustomers, lostCustomersThisYear),
                     cumulativeLoss |-> cumulativeLoss,
                     projections |->
                        IF year \in targets
                            THEN (year :> cumulativeLoss) @@ st.projections
                            ELSE st.projections])

\* The for loop of calculateLifetimeValueLost from `year` on; st holds
\* remainingCustomers, cumulativeLoss and projections.
RECURSIVE ProjectYears(_, _, _, _, _)
ProjectYears(inputs, targets, maxYear, year, st) ==
    IF year > maxYear
        THEN st.projections
        ELSE LET lostCustomersThisYear ==
                     Mul(st.remainingCustomers, toDecimal(inputs.churnRate))
                 revenueLostThisYear ==
                     Mul(lostCustomersThisYear,
                         Mul(inputs.averageOrderValue, inputs.purchaseFrequency))
                 cumulativeLoss ==
                     Add(st.cumulativeLoss,
                         applyGrossMargin(revenueLostThisYear, inputs.grossMargin))
             IN  ProjectYears(inputs, targets, maxYear, year + 1,
                    [remainingCustomers |->
                        Sub(st.remainingCustomers, lostCustomersThisYear),
                     cumulativeLoss |-> cumulativeLoss,
                     projections |->
                        IF year \in targets
                            THEN (year :> cumulativeLoss) @@ st.projections
                            ELSE st.projections])

\* calculateLifetimeValueLost recording every simulated year, requested or not.
calculateLifetimeValueLostEveryYear(inputs, years) ==
    IF Len(years) = 0
        THEN [raised |-> TRUE, projections |-> <<>>]
        ELSE [raised |-> FALSE,
              projections |->
                ProjectYears(inputs, 1..Max(years), Max(years), 1,
                    [remainingCustomers |-> inputs.numberOfCustomers,
                     cumulativeLoss |-> <<0, 1>>,
                     projections |-> <<>>])]

\* calculateLifetimeValueLost(inputs, years): it throws (raised) on an empty
\* list, else returns projections, which maps each requested year to the
\* cumulative loss.
calculateLifetimeValueLost(inputs, years) ==
    IF Len(years) = 0
        THEN [raised |-> TRUE, projections |-> <<>>]
        ELSE [raised |-> FALSE,
              projections |->
                ProjectYears(inputs, {years[i] : i \in 1..Len(years)}, Max(years), 1,
                    [remainingCustomers |-> inputs.numberOfCustomers,
                     cumulativeLoss |-> <<0, 1>>,
                     projections |-> <<>>])]

calculateReplacementCost(inputs) ==
    IF inputs.customerAcquisitionCost = Undefined
        THEN <<0, 1>>
        ELSE Mul(Mul(inputs.numberOfCustomers, toDecimal(inputs.churnRate)),
                 inputs.customerAcquisitionCost)

\* One scenario with the churn rate scaled by the reduction itself, not by
\* what the reduction leaves.
ScenarioScaledByReduction(inputs, reductionPercentage) ==
    LET reductionDecimal == toDecimal(Whole(reductionPercentage))
        adjustedInputs ==
            [inputs EXCEPT !.churnRate = Mul(@, reductionDecimal)]
        annualSavings ==
            Sub(calculateAnnualRevenueLost(inputs),
                calculateAnnualRevenueLost(adjustedInputs))
        baseLtv == calculateLifetimeValueLost(inputs, <<3>>).projections[3]
        adjustedLtv == calculateLifetimeValueLost(adjustedInputs, <<3>>).projections[3]
    IN  [reductionPercentage |-> reductionPercentage,
         annualSavings |-> annualSavings,
         threeYearSavings |-> Sub(baseLtv, adjustedLtv)]

\* The scenario calculateChurnReductionScenarios computes for one reduction.
Scenario(inputs, reductionPercentage) ==
    LET reductionDecimal == toDecimal(Whole(reductionPercentage))
        adjustedInputs ==
            [inputs EXCEPT !.churnRate = Mul(@, Sub(Whole(1), reductionDecimal))]
        annualSavings ==
            Sub(calculateAnnualRevenueLost(inputs),
                calculateAnnualRevenueLost(adjustedInputs))
        baseLtv == calculateLifetimeValueLost(inputs, <<3>>).projections[3]
        adjustedLtv == calculateLifetimeValueLost(adjustedInputs, <<3>>).projections[3]
    IN  [reductionPercentage |-> reductionPercentage,
         annualSavings |-> annualSavings,
         threeYearSavings |-> Sub(baseLtv, adjustedLtv)]

\* The scenarios in the order 50, 25, 10.
calculateChurnReductionScenariosDescending(inputs) ==
    <<Scenario(inputs, 50), Scenario(inputs, 25), Scenario(inputs, 10)>>

calculateChurnReductionScenarios(inputs) ==
    <<Scenario(inputs, 10), Scenario(inputs, 25), Scenario(inputs, 50)>>

calculateCalculatorResults(inputs) ==
    [annualRevenueLost |-> calculateAnnualRevenueLost(inputs),
     lifetimeValueLost |-> calculateLifetimeValueLost(inputs, <<1, 3, 5>>).projections,
     replacementCost |-> calculateReplacementCost(inputs),
     reducedChurnScenarios |-> calculateChurnReductionScenarios(inputs)]

\* The values of CalculatorInputs the calculator is called with: each field
\* within its documented range, the optional ones also left out.
CalculatorInputs ==
    [averageOrderValue : {Whole(1), <<5, 2>>, Whole(100)},
     numberOfCustomers : {Whole(1), Whole(3), Whole(1000)},
     purchaseFrequency : {Whole(1), Whole(4)},
     churnRate : {Whole(0), <<25, 2>>, Whole(20), Whole(50), Whole(100)},
     customerAcquisitionCost : {Undefined, Whole(30)},
     grossMargin : {Undefined, Whole(0), Whole(50), Whole(100)}]

\* The lists of projection horizons calculateLifetimeValueLost is called with.
YearLists ==
    { <<>>, <<1>>, <<2>>, <<3>>, <<5>>, <<1, 3>>, <<3, 1>>, <<3, 3>>, <<2, 5>>,
      <<1, 2, 3>>, <<1, 3, 5>> }

NoInputs ==
    [averageOrderValue |-> Whole(1), numberOfCustomers |-> Whole(1),
     purchaseFrequency |-> Whole(1), churnRate |-> Whole(0),
     customerAcquisitionCost |-> Undefined, grossMargin |-> Undefined]

\* What submitLeadCapture passes on when the payload has no calculatorResults.
DefaultResults ==
    [annualRevenueLost |-> Whole(0), lifetimeValueLost |-> <<>>,
     replacementCost |-> Whole(0), reducedChurnScenarios |-> <<>>]

\* The calculator before any call.  call: "results" after
\* calculateCalculatorResults(inputs), "projection" after
\* calculateLifetimeValueLost(inputs, years).
IdleCalc ==
    [call |-> "none", inputs |-> NoInputs, years |-> <<>>,
     results |-> DefaultResults,
     projection |-> [raised |-> FALSE, projections |-> <<>>]]

\* ------------------------------------------------ the secondary operations

DealOps == {"fetch", "deal"}

MsgDealSkipped == "Annual revenue lost below threshold. Deal creation skipped."
MsgDealCreated == "Deal created successfully."
MsgDealFailed == "Unable to create a HubSpot deal at this time."
MsgNotConfigured == "Workflow enrollment is not configured."
MsgEnrolled == "Workflow enrollment successful."
MsgNotEnrolled == "We could not enroll this contact in the email sequence."

\* The locals of the invocation of createHubSpotDeal.
\*   pc       "idle", "fetch" (fetchContactDetails), "deal" (the POST of the
\*            deal), "done" (it returned result), "raised" (it threw)
\*   tries    invocations of each operation;  sent: requests sent by each
\*   amount   body.properties.amount of the deal requests
IdleDeal ==
    [pc |-> "idle", contactId |-> 0, w |-> FreshRetry,
     tries |-> [o \in DealOps |-> 0], sent |-> [o \in DealOps |-> 0],
     amount |-> <<>>, caught |-> NoError,
     result |-> [success |-> FALSE, dealId |-> 0, message |-> ""]]

\* The locals of the invocation of triggerEmailSequence.
IdleEnroll ==
    [pc |-> "idle", email |-> <<>>, w |-> FreshRetry, tries |-> 0, sent |-> 0,
     caught |-> NoError, result |-> [success |-> FALSE, message |-> ""]]

\* ------------------------------------------------------------ lead score

\* The numbers that are not finite: a denominator of 0.
NaN == <<0, 0>>
PlusInfinity == <<1, 0>>
MinusInfinity == <<-1, 0>>

\* Number.isFinite
IsFinite(x) == x[2] # 0

\* Math.min of two finite numbers.
MathMin(x, y) == IF Leq(x, y) THEN x ELSE y

\* Math.round of a finite number: the whole number at or below x + 1/2.
MathRound(x) == (2 * x[1] + x[2]) \div (2 * x[2])

\* calculateLeadScore with no cap on the value.
calculateLeadScoreUncapped(annualRevenueLost) ==
    IF ~IsFinite(annualRevenueLost) \/ Leq(annualRevenueLost, <<0, 1>>)
        THEN 10
        ELSE MathRound(Mul(Mul(annualRevenueLost, <<1, 1000000>>), <<100, 1>>))

calculateLeadScore(annualRevenueLost) ==
    IF ~IsFinite(annualRevenueLost) \/ Leq(annualRevenueLost, <<0, 1>>)
        THEN 10
        ELSE LET capped == MathMin(annualRevenueLost, <<1000000, 1>>)
                 score == MathRound(Mul(Mul(capped, <<1, 1000000>>), <<100, 1>>))
             IN  IF 100 <= score THEN 100 ELSE score

\* HubSpotLifecycleStage
LifecycleStages ==
    {"subscriber", "lead", "marketingqualifiedlead", "salesqualifiedlead",
     "opportunity", "customer", "evangelist", "other"}

\* formData.lifecycleStage when there is none.
NoStage == ""

\* determineLifecycleStage with the lower bound of each tier left out of it.
determineLifecycleStageExclusive(leadScore, explicitStage) ==
    IF explicitStage # NoStage
        THEN explicitStage
        ELSE IF leadScore > 80 THEN "salesqualifiedlead"
        ELSE IF leadScore > 60 THEN "marketingqualifiedlead"
        ELSE IF leadScore > 40 THEN "lead"
        ELSE "subscriber"

determineLifecycleStage(leadScore, explicitStage) ==
    IF explicitStage # NoStage
        THEN explicitStage
        ELSE IF leadScore >= 80 THEN "salesqualifiedlead"
        ELSE IF leadScore >= 60 THEN "marketingqualifiedlead"
        ELSE IF leadScore >= 40 THEN "lead"
        ELSE "subscriber"

\* The values of calculatorResults.annualRevenueLost the score is taken of.
Losses ==
    {NaN, PlusInfinity, MinusInfinity}
    \cup { <<n, 1>> : n \in {-1, 0, 1, 4999, 5000, 50000, 94999, 95000, 100000,
                             394999, 395000, 400000, 594999, 595000, 600000,
                             794999, 795000, 800000, 994999, 995000, 999999,
                             1000000, 1000001, 2000000} }
    \cup { <<1, 2>>, <<5000001, 100>> }

\* What buildContactProperties last derived: nothing yet.
IdleLead ==
    [call |-> "none", annualRevenueLost |-> <<0, 1>>, explicitStage |-> "",
     leadScore |-> 0, lifecycleStage |-> ""]

\* The EmailCapture component as mounted: closed, no success, no error.
\*   pc  "idle", or "submitting" while onSubmit awaits submitLeadCapture
IdleModal ==
    [isOpen |-> FALSE, isSuccess |-> FALSE, submissionError |-> FALSE, pc |-> "idle"]

Init ==
    /\ env \in [token : BOOLEAN, listId : BOOLEAN, portalId : BOOLEAN, formId : BOOLEAN]
    /\ contacts = {}
    /\ started = 0
    /\ run = [p \in Procs |-> IdleRun]
    /\ calculatorResults = DefaultResults
    /\ deal = IdleDeal
    /\ enroll = IdleEnroll
    /\ calc = IdleCalc
    /\ lead = IdleLead
    /\ modal = IdleModal

\* submitToHubSpot is invoked with formData.email = formEmail; upsertContact
\* runs up to its lookup.
InvokeWith(p, formEmail) ==
    /\ run[p].pc \in {"idle", "done", "raised"}
    /\ started < MaxRuns
    /\ LET email == ToLowerCase(Trim(formEmail))
            r == [IdleRun EXCEPT !.formEmail = formEmail, !.email = email]
       IN  run' = [run EXCEPT ![p] =
                IF email = <<>>
                    THEN Catch(r, EmailRequiredError)
                    ELSE [r EXCEPT !.pc = "lookup"]]
    /\ started' = started + 1

Invoke(p) == \E formEmail \in Emails : InvokeWith(p, formEmail)

Start(p) ==
    /\ Invoke(p)
    /\ UNCHANGED <<env, contacts, others>>

\* The backoff sleep of the withRetry call in progress ends.
Sleep(p) ==
    /\ run[p].w.wr = "sleeping"
    /\ LET r == [run[p] EXCEPT !.w = AfterSleep(@)]
       IN  run' = [run EXCEPT ![p] = IF r.w.wr = "thrown" THEN Thrown(r) ELSE r]
    /\ UNCHANGED <<env, contacts, started, others>>

\* One attempt of upsertContact's lookup.
Lookup(p) ==
    /\ run[p].pc = "lookup"
    /\ run[p].w.wr # "sleeping"
    /\ \E resp \in LookupResponses(run[p].email) :
        LET res == lookupContact(resp)
            w == withRetry(Begin(run[p].w, "lookup"), res)
            r == [Count(run[p], "lookup", res) EXCEPT !.w = w]
            id == IF Find(run[p].email) = {}
                    THEN 0
                    ELSE (CHOOSE c \in Find(run[p].email) : TRUE).id
        IN  run' = [run EXCEPT ![p] =
                CASE w.wr = "returned" -> afterLookup(r, res.found, id)
                  [] w.wr = "thrown" -> Thrown(r)
                  [] OTHER -> r]
    /\ UNCHANGED <<env, contacts, started, others>>

\* One attempt of the PATCH of the contact the lookup returned.
Update(p) ==
    /\ run[p].pc = "update"
    /\ run[p].w.wr # "sleeping"
    /\ \E resp \in UpdateResponses(run[p].existing, run[p].formEmail) :
        LET res == hubspotRequest(resp)
            w == withRetry(Begin(run[p].w, "update"), res)
            r == [Count(run[p], "update", res) EXCEPT
                     !.w = w,
                     !.patchId = IF res.sent THEN run[p].existing ELSE @]
        IN  /\ run' = [run EXCEPT ![p] =
                    CASE w.wr = "returned" ->
                            [r EXCEPT !.contactId = r.existing, !.pc = "list"]
                      [] w.wr = "thrown" -> Thrown(r)
                      [] OTHER -> r]
            /\ contacts' =
                    IF res.ok
                        THEN { IF c.id = run[p].existing
                                   THEN [c EXCEPT !.email = run[p].formEmail]
                                   ELSE c : c \in contacts }
                        ELSE contacts
    /\ UNCHANGED <<env, started, others>>

\* One attempt of the POST of a new contact.
Create(p) ==
    /\ run[p].pc = "create"
    /\ run[p].w.wr # "sleeping"
    /\ \E resp \in CreateResponses(run[p].formEmail) :
        LET res == hubspotRequest(resp)
            w == withRetry(Begin(run[p].w, "create"), res)
            r == [Count(run[p], "create", res) EXCEPT !.w = w]
        IN  /\ run' = [run EXCEPT ![p] =
                    CASE w.wr = "returned" ->
                            [r EXCEPT !.contactId = NewId, !.pc = "list"]
                      [] w.wr = "thrown" -> Thrown(r)
                      [] OTHER -> r]
            /\ contacts' =
                    IF res.ok
                        THEN contacts \cup
                             {[id |-> NewId, email |-> run[p].formEmail, by |-> started]}
                        ELSE contacts
    /\ UNCHANGED <<env, started, others>>

\* addContactToList: it returns at once with no list id, else one attempt of
\* the list request.
List(p) ==
    /\ run[p].pc = "list"
    /\ run[p].w.wr # "sleeping"
    /\ IF ~env.listId
          THEN run' = [run EXCEPT ![p].pc = "form"]
          ELSE \E resp \in OtherResponses :
                LET res == hubspotRequest(resp)
                    w == withRetry(Begin(run[p].w, "list"), res)
                    r == [Count(run[p], "list", res) EXCEPT !.w = w]
                IN  run' = [run EXCEPT ![p] =
                        CASE w.wr = "returned" -> [r EXCEPT !.pc = "form"]
                          [] w.wr = "thrown" -> Thrown(r)
                          [] OTHER -> r]
    /\ UNCHANGED <<env, contacts, started, others>>

\* submitFormSubmission: it returns at once with no portal or form id, else
\* one attempt of the form submission.
Form(p) ==
    /\ run[p].pc = "form"
    /\ run[p].w.wr # "sleeping"
    /\ IF ~FormConfigured
          THEN run' = [run EXCEPT ![p] = Succeed(run[p])]
          ELSE \E resp \in OtherResponses :
                LET res == formFetch(resp)
                    w == withRetry(Begin(run[p].w, "form"), res)
                    r == [Count(run[p], "form", res) EXCEPT !.w = w]
                IN  run' = [run EXCEPT ![p] =
                        CASE w.wr = "returned" -> Succeed(r)
                          [] w.wr = "thrown" -> Thrown(r)
                          [] OTHER -> r]
    /\ UNCHANGED <<env, contacts, started, others>>

\* The fields of the fallback's body that come of formData.email: a field is
\* kept when its value is truthy, and the empty string is not.
fallbackFields(formEmail) == IF formEmail # <<>> THEN {"email"} ELSE {}

\* submitEmailOnlyFallback with no try/catch around its fetch.
submitEmailOnlyFallbackNoCatch(resp) ==
    IF ~FormConfigured
        THEN [raised |-> FALSE, value |-> FALSE, sent |-> FALSE]
        ELSE IF resp.transport = "failed"
            THEN [raised |-> TRUE, value |-> FALSE, sent |-> TRUE]
            ELSE [raised |-> FALSE, value |-> ResponseOk(resp), sent |-> TRUE]

\* What submitEmailOnlyFallback makes of its one fetch: [raised, value, sent].
submitEmailOnlyFallback(resp) ==
    IF ~FormConfigured
        THEN [raised |-> FALSE, value |-> FALSE, sent |-> FALSE]
        ELSE IF resp.transport = "failed"
            THEN [raised |-> FALSE, value |-> FALSE, sent |-> TRUE]
            ELSE [raised |-> FALSE, value |-> ResponseOk(resp), sent |-> TRUE]

\* submitToHubSpot's catch block: the email-only fallback, then the result.
Fallback(p) ==
    /\ run[p].pc = "fallback"
    /\ \E resp \in OtherResponses :
        LET fb == submitEmailOnlyFallback(resp)
            r == [Count(run[p], "fallback", fb) EXCEPT
                     !.fbOk = fb.sent /\ ResponseOk(resp)]
        IN  run' = [run EXCEPT ![p] =
                IF fb.raised
                    THEN [r EXCEPT !.pc = "raised"]
                    ELSE [r EXCEPT !.pc = "done",
                             !.result = [success |-> FALSE, contactId |-> 0,
                                         fallbackUsed |-> fb.value,
                                         message |-> IF fb.value THEN MsgEmailSaved
                                                                 ELSE MsgNotSaved]]]
    /\ UNCHANGED <<env, contacts, started, others>>

Step(p) ==
    \/ Start(p)
    \/ Sleep(p)
    \/ Lookup(p)
    \/ Update(p)
    \/ Create(p)
    \/ List(p)
    \/ Form(p)
    \/ Fallback(p)

\* One caller, its invocations one after the other.
Next == Step(Caller)

Spec == Init /\ [][Next]_vars

\* The event loop runs what is ready: a pending request is answered or fails,
\* a backoff timer fires.
FairSpec == Spec /\ WF_vars(Next)

\* ------------------------------------------------ the secondary operations
\*
\* createHubSpotDeal and triggerEmailSequence are exported for the caller of
\* submitToHubSpot, which hands them the contact id of the record it received
\* and the email it submitted.  FlowSpec is such a caller: it submits, then
\* makes the two calls in either order, one call in flight at a time.

\* The failures the secondary requests meet: one that ends a call at once,
\* one that is retried.
SecondaryFailures == {Response(400), Response(503)}

\* GET /crm/v3/objects/contacts/{contactId}
FetchResponses(contactId) ==
    (IF \E c \in contacts : c.id = contactId THEN {Response(200)} ELSE {Response(404)})
        \cup SecondaryFailures

\* POST /crm/v3/objects/deals, and the workflow enrollment.
PostResponses == {Response(201)} \cup SecondaryFailures

\* The test skipping the deal below the threshold only.
dealSkippedBelow(results) == Less(results.annualRevenueLost, Whole(DEAL_THRESHOLD))

\* createHubSpotDeal's first test: the deal is skipped.
dealSkipped(results) == Leq(results.annualRevenueLost, Whole(DEAL_THRESHOLD))

potentialSavings(results) == Mul(Mul(results.annualRevenueLost, <<1, 4>>), Whole(3))

\* createHubSpotDeal with no catch block.
dealNoCatch(d, error) == [d EXCEPT !.pc = "raised", !.caught = error]

\* createHubSpotDeal's catch block.
dealCatch(d, error) ==
    [d EXCEPT !.pc = "done", !.caught = error,
              !.result = [success |-> FALSE, dealId |-> 0, message |-> MsgDealFailed]]

\* What is left of an invocation of submitToHubSpot once its caller goes on:
\* the record it returned and the form data; its locals are gone.
Returned(r) ==
    [IdleRun EXCEPT !.pc = "done", !.formEmail = r.formEmail, !.result = r.result]

\* createHubSpotDeal(contactId, calculatorResults) is invoked with the
\* contact id of the record submitToHubSpot returned.
StartDeal ==
    /\ deal.pc = "idle"
    /\ run[Caller].pc = "done"
    /\ enroll.pc \in {"idle", "done"}
    /\ LET d == [IdleDeal EXCEPT !.contactId = run[Caller].result.contactId]
       IN  deal' =
            IF dealSkipped(calculatorResults)
                THEN [d EXCEPT !.pc = "done",
                               !.result = [success |-> FALSE, dealId |-> 0,
                                           message |-> MsgDealSkipped]]
                ELSE [d EXCEPT !.pc = "fetch"]
    /\ run' = [run EXCEPT ![Caller] = Returned(@)]
    /\ UNCHANGED <<env, contacts, started, calculatorResults, enroll, calc, lead, modal>>

\* The backoff sleep of createHubSpotDeal's withRetry call in progress ends.
SleepDeal ==
    /\ deal.w.wr = "sleeping"
    /\ LET d == [deal EXCEPT !.w = AfterSleep(@)]
       IN  deal' = IF d.w.wr = "thrown" THEN dealCatch(d, d.w.thrown) ELSE d
    /\ UNCHANGED <<env, contacts, started, run, calculatorResults, enroll, calc, lead, modal>>

\* One attempt of fetchContactDetails; when it returns the deal's body is built.
FetchContact ==
    /\ deal.pc = "fetch"
    /\ deal.w.wr # "sleeping"
    /\ \E resp \in FetchResponses(deal.contactId) :
        LET res == hubspotRequest(resp)
            w == withRetry(Begin(deal.w, "fetch"), res)
            d == [deal EXCEPT !.tries["fetch"] = @ + 1,
                              !.sent["fetch"] = @ + (IF res.sent THEN 1 ELSE 0),
                              !.w = w]
        IN  deal' =
                CASE w.wr = "returned" ->
                        [d EXCEPT !.pc = "deal",
                                  !.amount = toFixed2(potentialSavings(calculatorResults))]
                  [] w.wr = "thrown" -> dealCatch(d, w.thrown)
                  [] OTHER -> d
    /\ UNCHANGED <<env, contacts, started, run, calculatorResults, enroll, calc, lead, modal>>

\* One attempt of the POST of the deal.
PostDeal ==
    /\ deal.pc = "deal"
    /\ deal.w.wr # "sleeping"
    /\ \E resp \in PostResponses :
        LET res == hubspotRequest(resp)
            w == withRetry(Begin(deal.w, "deal"), res)
            d == [deal EXCEPT !.tries["deal"] = @ + 1,
                              !.sent["deal"] = @ + (IF res.sent THEN 1 ELSE 0),
                              !.w = w]
        IN  deal' =
                CASE w.wr = "returned" ->
                        [d EXCEPT !.pc = "done",
                                  !.result = [success |-> TRUE, dealId |-> 1,
                                              message |-> MsgDealCreated]]
                  [] w.wr = "thrown" -> dealCatch(d, w.thrown)
                  [] OTHER -> d
    /\ UNCHANGED <<env, contacts, started, run, calculatorResults, enroll, calc, lead, modal>>

\* triggerEmailSequence reading another setting than the workflow id.
workflowConfiguredByToken == env.token

\* triggerEmailSequence's test of VITE_HUBSPOT_WORKFLOW_ID.
workflowConfigured == env.workflowId

\* triggerEmailSequence's catch block.
enrollCatch(e, error) ==
    [e EXCEPT !.pc = "done", !.caught = error,
              !.result = [success |-> FALSE, message |-> MsgNotEnrolled]]

\* triggerEmailSequence(email) is invoked.
StartEnroll ==
    /\ enroll.pc = "idle"
    /\ run[Caller].pc = "done"
    /\ deal.pc \in {"idle", "done"}
    /\ LET e == [IdleEnroll EXCEPT !.email = run[Caller].formEmail]
       IN  enroll' =
            IF ~workflowConfigured
                THEN [e EXCEPT !.pc = "done",
                               !.result = [success |-> FALSE, message |-> MsgNotConfigured]]
                ELSE [e EXCEPT !.pc = "enroll"]
    /\ run' = [run EXCEPT ![Caller] = Returned(@)]
    /\ UNCHANGED <<env, contacts, started, calculatorResults, deal, calc, lead, modal>>

\* The backoff sleep of triggerEmailSequence's withRetry call ends.
SleepEnroll ==
    /\ enroll.w.wr = "sleeping"
    /\ LET e == [enroll EXCEPT !.w = AfterSleep(@)]
       IN  enroll' = IF e.w.wr = "thrown" THEN enrollCatch(e, e.w.thrown) ELSE e
    /\ UNCHANGED <<env, contacts, started, run, calculatorResults, deal, calc, lead, modal>>

\* One attempt of the workflow enrollment.
Enroll ==
    /\ enroll.pc = "enroll"
    /\ enroll.w.wr # "sleeping"
    /\ \E resp \in PostResponses :
        LET res == hubspotRequest(resp)
            w == withRetry(Begin(enroll.w, "enroll"), res)
            e == [enroll EXCEPT !.tries = @ + 1,
                                !.sent = @ + (IF res.sent THEN 1 ELSE 0),
                                !.w = w]
        IN  enroll' =
                CASE w.wr = "returned" ->
                        [e EXCEPT !.pc = "done",
                                  !.result = [success |-> TRUE, message |-> MsgEnrolled]]
                  [] w.wr = "thrown" -> enrollCatch(e, w.thrown)
                  [] OTHER -> e
    /\ UNCHANGED <<env, contacts, started, run, calculatorResults, deal, calc, lead, modal>>

\* The values of calculatorResults.annualRevenueLost the caller passes on.
Revenues == {Whole(50000), <<5000001, 100>>, Whole(50001)}

\* The caller's submission starts with the list configured and the form not;
\* the CRM may hold the contact already.
FlowInit ==
    /\ env \in [token : BOOLEAN, listId : {TRUE}, portalId : {TRUE},
                formId : {FALSE}, workflowId : BOOLEAN]
    /\ contacts \in {{}, {[id |-> 1, email |-> <<"a">>, by |-> 0]}}
    /\ started = 0
    /\ run = [p \in Procs |-> IdleRun]
    /\ calculatorResults \in [annualRevenueLost : Revenues]
    /\ deal = IdleDeal
    /\ enroll = IdleEnroll
    /\ calc = IdleCalc
    /\ lead = IdleLead
    /\ modal = IdleModal

\* The caller submits: its calls of createHubSpotDeal and triggerEmailSequence
\* for the submission before, if any, have ended, and those for this one are
\* yet to be made.
StartFlow ==
    /\ started < MaxFlows
    /\ deal.pc \in {"idle", "done"}
    /\ enroll.pc \in {"idle", "done"}
    /\ Invoke(Caller)
    /\ deal' = IdleDeal
    /\ enroll' = IdleEnroll
    /\ UNCHANGED <<env, contacts, calculatorResults, calc, lead, modal>>

FlowNext ==
    \/ StartFlow
    \/ Sleep(Caller)
    \/ Lookup(Caller)
    \/ Update(Caller)
    \/ Create(Caller)
    \/ List(Caller)
    \/ Form(Caller)
    \/ Fallback(Caller)
    \/ StartDeal
    \/ SleepDeal
    \/ FetchContact
    \/ PostDeal
    \/ StartEnroll
    \/ SleepEnroll
    \/ Enroll

FlowSpec == FlowInit /\ [][FlowNext]_vars

\* ---------------------------------------------------------- the calculator
\*
\* CalcSpec: the calculator is called once, with any of the inputs.

CalcInit ==
    /\ env = [token |-> FALSE, listId |-> FALSE, portalId |-> FALSE, formId |-> FALSE]
    /\ contacts = {}
    /\ started = 0
    /\ run = [p \in Procs |-> IdleRun]
    /\ calculatorResults = DefaultResults
    /\ deal = IdleDeal
    /\ enroll = IdleEnroll
    /\ calc \in { [IdleCalc EXCEPT !.inputs = inputs, !.years = years] :
                    inputs \in CalculatorInputs, years \in YearLists }
    /\ lead = IdleLead
    /\ modal = IdleModal

\* calculateCalculatorResults(inputs)
Calculate ==
    /\ calc.call = "none"
    /\ calc' = [calc EXCEPT !.call = "results",
                            !.results = calculateCalculatorResults(calc.inputs)]
    /\ UNCHANGED <<env, contacts, started, run, calculatorResults, deal, enroll, lead,
                   modal>>

\* calculateLifetimeValueLost(inputs, years)
Project ==
    /\ calc.call = "none"
    /\ calc' = [calc EXCEPT !.call = "projection",
                            !.projection = calculateLifetimeValueLost(calc.inputs, calc.years)]
    /\ UNCHANGED <<env, contacts, started, run, calculatorResults, deal, enroll, lead,
                   modal>>

CalcNext == Calculate \/ Project

CalcSpec == CalcInit /\ [][CalcNext]_vars

\* ----------------------------------------------------------- the lead score
\*
\* LeadSpec: the contact properties are built once, for any annual loss and
\* any stage the form may carry.

LeadInit ==
    /\ env = [token |-> FALSE, listId |-> FALSE, portalId |-> FALSE, formId |-> FALSE]
    /\ contacts = {}
    /\ started = 0
    /\ run = [p \in Procs |-> IdleRun]
    /\ calculatorResults = DefaultResults
    /\ deal = IdleDeal
    /\ enroll = IdleEnroll
    /\ calc = IdleCalc
    /\ lead \in { [IdleLead EXCEPT !.annualRevenueLost = annualRevenueLost,
                                   !.explicitStage = explicitStage] :
                    annualRevenueLost \in Losses,
                    explicitStage \in LifecycleStages \cup {NoStage} }
    /\ modal = IdleModal

\* buildContactProperties: leadScore, then lifecycleStage.
BuildContactProperties ==
    /\ lead.call = "none"
    /\ LET leadScore == calculateLeadScore(lead.annualRevenueLost)
       IN  lead' = [lead EXCEPT
                !.call = "properties",
                !.leadScore = leadScore,
                !.lifecycleStage = determineLifecycleStage(leadScore, lead.explicitStage)]
    /\ UNCHANGED <<env, contacts, started, run, calculatorResults, deal, enroll, calc,
                   modal>>

LeadNext == BuildContactProperties

LeadSpec == LeadInit /\ [][LeadNext]_vars

\* ------------------------------------------------- the email-capture modal
\*
\* ModalSpec: the EmailCapture component is opened, its form submitted
\* through submitLeadCapture, and closed.

\* The component is mounted; the CRM may hold the visitor's contact already.
ModalInit ==
    /\ env \in [token : BOOLEAN, listId : BOOLEAN, portalId : BOOLEAN, formId : BOOLEAN]
    /\ contacts \in {{}, {[id |-> 1, email |-> <<"a">>, by |-> 0]}}
    /\ started = 0
    /\ run = [p \in Procs |-> IdleRun]
    /\ calculatorResults = DefaultResults
    /\ deal = IdleDeal
    /\ enroll = IdleEnroll
    /\ calc = IdleCalc
    /\ lead = IdleLead
    /\ modal = IdleModal

\* openModal
OpenModal ==
    /\ modal.pc = "idle"
    /\ modal' = [modal EXCEPT !.submissionError = FALSE, !.isSuccess = FALSE,
                              !.isOpen = TRUE]
    /\ UNCHANGED <<env, contacts, started, run, calculatorResults, deal, enroll, calc,
                   lead>>

\* closeModal
CloseModal ==
    /\ modal.isOpen
    /\ modal' = [modal EXCEPT !.isOpen = FALSE, !.submissionError = FALSE]
    /\ UNCHANGED <<env, contacts, started, run, calculatorResults, deal, enroll, calc,
                   lead>>

\* onSubmit once submitLeadCapture has settled: setIsSuccess(true) when it
\* returned, whatever it returned; the catch block when it threw.
onSettled(m, r) ==
    IF r.pc = "done"
        THEN [m EXCEPT !.pc = "idle", !.isSuccess = TRUE]
        ELSE [m EXCEPT !.pc = "idle", !.submissionError = TRUE]

\* The form is submitted with an email that passes validation (it is
\* trimmed, and required): onSubmit runs up to its await of
\* submitLeadCapture, which passes the default results on to submitToHubSpot.
OnSubmit ==
    /\ modal.isOpen
    /\ ~modal.isSuccess
    /\ modal.pc = "idle"
    /\ started < MaxFlows
    /\ calculatorResults = DefaultResults
    /\ \E value \in Emails :
        /\ Trim(value) # <<>>
        /\ InvokeWith(Caller, Trim(value))
    /\ modal' = [modal EXCEPT !.pc = "submitting", !.submissionError = FALSE]
    /\ UNCHANGED <<env, contacts, calculatorResults, deal, enroll, calc, lead>>

\* The promise onSubmit awaits has settled.
Settle ==
    /\ modal.pc = "submitting"
    /\ run[Caller].pc \in {"done", "raised"}
    /\ modal' = onSettled(modal, run[Caller])
    /\ UNCHANGED <<env, contacts, started, run, calculatorResults, deal, enroll, calc,
                   lead>>

ModalNext ==
    \/ OpenModal
    \/ CloseModal
    \/ OnSubmit
    \/ Settle
    \/ Sleep(Caller)
    \/ Lookup(Caller)
    \/ Update(Caller)
    \/ Create(Caller)
    \/ List(Caller)
    \/ Form(Caller)
    \/ Fallback(Caller)

ModalSpec == ModalInit /\ [][ModalNext]_vars

\* --------------------------------------------------- concurrent submissions
\*
\* ConcSpec: two callers submit, each once, the steps of their runs
\* interleaved as the event loop takes them.

\* The emails the two callers submit: the same address.
ConcEmails == { <<"a">> }

\* Only the access token is set: the contact requests are the ones sent.
ConcInit ==
    /\ env = [token |-> TRUE, listId |-> FALSE, portalId |-> FALSE, formId |-> FALSE]
    /\ contacts = {}
    /\ started = 0
    /\ run = [p \in Procs |-> IdleRun]
    /\ calculatorResults = DefaultResults
    /\ deal = IdleDeal
    /\ enroll = IdleEnroll
    /\ calc = IdleCalc
    /\ lead = IdleLead
    /\ modal = IdleModal

\* A caller that submits only when no other run is in progress.
ConcStartWaits(p) ==
    /\ run[p].pc = "idle"
    /\ \A q \in Procs : run[q].pc \in {"idle", "done", "raised"}
    /\ \E formEmail \in ConcEmails : InvokeWith(p, formEmail)
    /\ UNCHANGED <<env, contacts, others>>

\* Caller p invokes submitToHubSpot, whatever the other caller's run is at.
ConcStart(p) ==
    /\ run[p].pc = "idle"
    /\ \E formEmail \in ConcEmails : InvokeWith(p, formEmail)
    /\ UNCHANGED <<env, contacts, others>>

\* The backoffs the run r has slept or is sleeping.
Backoffs(r) ==
    LET retried(op) == IF op # r.w.op /\ r.tries[op] > 1 THEN r.tries[op] - 1 ELSE 0
    IN  retried("lookup") + retried("update") + retried("create") + retried("list")
        + retried("form") + Len(r.w.sleeps)

ConcBackoffs == Backoffs(run["p1"]) + Backoffs(run["p2"])

\* The requests of the run of p, one failing in a way that is retried only
\* while the backoffs are within their bound.
ConcLookup(p) == Lookup(p) /\ ConcBackoffs' <= MaxBackoffs

ConcUpdate(p) == Update(p) /\ ConcBackoffs' <= MaxBackoffs

ConcCreate(p) == Create(p) /\ ConcBackoffs' <= MaxBackoffs

ConcList(p) == List(p) /\ ConcBackoffs' <= MaxBackoffs

ConcForm(p) == Form(p) /\ ConcBackoffs' <= MaxBackoffs

ConcStep(p) ==
    \/ ConcStart(p)
    \/ Sleep(p)
    \/ ConcLookup(p)
    \/ ConcUpdate(p)
    \/ ConcCreate(p)
    \/ ConcList(p)
    \/ ConcForm(p)
    \/ Fallback(p)

ConcNext == \E p \in Procs : ConcStep(p)

\* The event loop runs what is ready.
ConcSpec == ConcInit /\ [][ConcNext]_vars /\ WF_vars(ConcNext)

\* ================================================================ claims

Running(p) == run[p].pc \notin {"idle", "done", "raised"}

Failed(status) == [ok |-> FALSE, error |-> HubSpotApiError(status), status |-> status]

\* C1: submitToHubSpot never raises.  Whatever the record submitted, the
\* configuration and the remote outcomes, no invocation ends by throwing, a
\* running invocation always has a next step, and an invocation that has
\* ended has returned a record with success, fallbackUsed and a message.
C1_NeverRaises ==
    \A p \in Procs :
        /\ run[p].pc # "raised"
        /\ Running(p) => ENABLED (Sleep(p) \/ Lookup(p) \/ Update(p) \/ Create(p)
                                    \/ List(p) \/ Form(p) \/ Fallback(p))
        /\ run[p].pc = "done" =>
            /\ run[p].result.success \in BOOLEAN
            /\ run[p].result.fallbackUsed \in BOOLEAN
            /\ run[p].result.message \in {MsgSaved, MsgEmailSaved, MsgNotSaved}

\* A run with no access token whose fallback request met a network error has
\* returned its record.
C1_Witness ==
    \E p \in Procs :
        /\ run[p].pc = "done"
        /\ run[p].caught = ConfigError
        /\ run[p].sent["fallback"] = 1
        /\ ~run[p].fbOk
        /\ run[p].result = [success |-> FALSE, contactId |-> 0,
                            fallbackUsed |-> FALSE, message |-> MsgNotSaved]

\* C2: when the upsert or the form submission ends in an unrecovered failure
\* the error reaches the catch block, the fallback is attempted with at most
\* one request, the result has success = FALSE, and fallbackUsed is TRUE
\* exactly when that one request was sent and answered successfully.
C2_FallbackOnFailure ==
    \A p \in Procs :
        /\ run[p].tries["fallback"] <= 1
        /\ run[p].sent["fallback"] <= 1
        /\ (run[p].w.wr = "thrown" /\ run[p].w.op \in {"lookup", "update", "create", "form"})
            => /\ run[p].pc \in {"fallback", "done"}
               /\ run[p].caught = run[p].w.thrown
        /\ (run[p].pc = "done" /\ run[p].caught # NoError)
            => /\ run[p].tries["fallback"] = 1
               /\ run[p].result.success = FALSE
               /\ run[p].result.fallbackUsed
                    <=> (run[p].sent["fallback"] = 1 /\ run[p].fbOk)
        /\ (run[p].pc = "done" /\ run[p].caught = NoError)
            => run[p].tries["fallback"] = 0

\* The form submission failed for good with 400 after the contact was
\* written, and the fallback request succeeded.
C2_Witness ==
    \E p \in Procs :
        /\ run[p].pc = "done"
        /\ run[p].contactId # 0
        /\ run[p].w.op = "form"
        /\ run[p].caught = HubSpotApiError(400)
        /\ run[p].sent["fallback"] = 1
        /\ run[p].result.fallbackUsed
        /\ ~run[p].result.success

\* C3: under withRetry, 503 on attempts 1 and 2 and success on attempt 3 is a
\* success, slept 500 ms then 1000 ms; in every call the sleep before attempt
\* k+1 is 500 * 2^(k-1) ms, there are at most 3 attempts, and neither a sleep
\* nor a 4th attempt follows the third.
C3_Backoff ==
    \A p \in Procs :
        LET w == run[p].w
        IN  /\ w.attempt <= 3
            /\ Len(w.outcomes) = w.attempt
            /\ Len(w.sleeps) <= 2
            /\ \A k \in 1..Len(w.sleeps) : w.sleeps[k] = 500 * (2 ^ (k - 1))
            /\ Len(w.sleeps) = (IF w.wr \in {"sleeping", "call"} THEN w.attempt
                                ELSE w.attempt - 1)
            /\ w.attempt = 3 => w.wr \in {"returned", "thrown"}
            /\ (/\ Len(w.outcomes) = 3
                /\ w.outcomes[1] = Failed(503)
                /\ w.outcomes[2] = Failed(503)
                /\ w.outcomes[3].ok)
                => w.wr = "returned" /\ w.sleeps = <<500, 1000>>

\* A call that met 503 twice and then succeeded.
C3_Witness ==
    \E p \in Procs :
        LET w == run[p].w
        IN  /\ Len(w.outcomes) = 3
            /\ w.outcomes[1] = Failed(503)
            /\ w.outcomes[2] = Failed(503)
            /\ w.outcomes[3].ok
            /\ w.wr = "returned"

\* What the claim calls retryable: status 429, a status >= 500, or a
\* transport-level network error.
C4_Retryable(o) ==
    \/ o.error.type = "HubSpotApiError" /\ (o.status = 429 \/ o.status >= 500)
    \/ o.error = NetworkError

\* C4: after a failed attempt another attempt is made if and only if the
\* failure is retryable (429, >= 500, or a network error) and fewer than 3
\* attempts have been made; any other failure ends the call on that attempt
\* with no sleep; and the error the call throws, which is the one the catch
\* block receives, is the error of the last attempt made.
C4_RetryIffRetryable ==
    /\ \A s \in {400, 401, 403, 404} : ~shouldRetry(HubSpotApiError(s))
    /\ \A s \in {429, 500, 501, 503, 599} : shouldRetry(HubSpotApiError(s))
    /\ shouldRetry(NetworkError)
    /\ \A p \in Procs :
        LET w == run[p].w
            n == Len(w.outcomes)
        IN  /\ \A k \in 1..n :
                ~w.outcomes[k].ok =>
                    ((k < n \/ w.wr \in {"sleeping", "call"})
                        <=> (C4_Retryable(w.outcomes[k]) /\ k < 3))
            /\ (n > 0 /\ ~w.outcomes[n].ok /\ ~C4_Retryable(w.outcomes[n]))
                => /\ w.wr = "thrown"
                   /\ Len(w.sleeps) = n - 1
            /\ w.wr = "thrown" =>
                /\ n > 0
                /\ w.thrown = w.outcomes[n].error
                /\ w.op # "list" => run[p].caught = w.thrown

\* A call that was retried after a 429 and ended on a 400 at its 2nd attempt.
C4_Witness ==
    \E p \in Procs :
        LET w == run[p].w
        IN  /\ w.outcomes = <<Failed(429), Failed(400)>>
            /\ w.wr = "thrown"
            /\ w.thrown = HubSpotApiError(400)
            /\ Len(w.sleeps) = 1

\* The lookup of run p has returned a value to upsertContact.
LookupReturned(p) ==
    \/ run[p].pc \in {"update", "create", "list", "form"}
    \/ run[p].tries["update"] + run[p].tries["create"] > 0

\* C5 as stated: in a run that follows the run which created the contact for
\* the same email, the lookup returns that contact and an update and no
\* create is issued; and at most one create request is issued for an email
\* (here: by one submission, whose requests run[p].sent counts).
C5_Original ==
    \A p \in Procs :
        /\ \A c \in contacts :
            (c.by < started /\ c.email = run[p].formEmail /\ LookupReturned(p))
                => /\ run[p].existing = c.id
                   /\ run[p].sent["create"] = 0
        /\ run[p].sent["create"] <= 1

\* C5, amended: a run whose lookup returned a contact issues updates of that
\* contact and no create, in particular the run that follows the one which
\* created it; a run issues create requests only after its own lookup
\* returned "not found", at most 3 of them (the attempts of one create), of
\* which at most one creates a contact.
C5_CreateOnlyAfterNotFound ==
    \A p \in Procs :
        /\ run[p].existing # 0 =>
            /\ run[p].tries["create"] = 0
            /\ run[p].sent["create"] = 0
            /\ run[p].pc # "create"
            /\ run[p].sent["update"] > 0 => run[p].patchId = run[p].existing
        /\ (run[p].pc = "create" \/ run[p].tries["create"] > 0) =>
            /\ run[p].existing = 0
            /\ run[p].sent["lookup"] >= 1
            /\ run[p].tries["update"] = 0
        /\ (run[p].pc = "update" \/ run[p].tries["update"] > 0) => run[p].existing # 0
        /\ run[p].sent["create"] <= 3
        /\ run[p].pc # "idle" =>
            Cardinality({c \in contacts : c.by = started}) <= 1
        /\ \A c \in contacts :
            (c.by < started /\ run[p].existing = c.id /\ run[p].contactId # 0)
                => run[p].sent["update"] >= 1 /\ run[p].sent["create"] = 0

\* The second run found the contact the first run created and updated it.
C5_Witness ==
    \E p \in Procs : \E c \in contacts :
        /\ started = 2
        /\ c.by = 1
        /\ run[p].existing = c.id
        /\ run[p].pc = "done"
        /\ run[p].result.success
        /\ run[p].result.contactId = c.id
        /\ run[p].sent["update"] >= 1
        /\ run[p].sent["create"] = 0

\* C6: in the upsert a 404 answer to the lookup is "not found": it ends the
\* lookup with no retry and no error, and a create and no update follows; a
\* lookup that returns a contact is followed by the update of that contact
\* and no create; a successful upsert has sent one kind of write only and
\* returns the id of the contact it wrote.
C6_UpsertBranches ==
    \A p \in Procs :
        LET r == run[p]
            w == run[p].w
            n == Len(w.outcomes)
        IN  /\ w.op = "lookup" =>
                /\ \A k \in 1..n : w.outcomes[k].status = 404 =>
                    /\ k = n
                    /\ w.outcomes[k].ok
                    /\ w.wr = "returned"
                    /\ Len(w.sleeps) = n - 1
                    /\ r.pc = "create"
                    /\ r.existing = 0
                    /\ r.caught = NoError
                /\ (n > 0 /\ w.outcomes[n].status = 200) =>
                    /\ r.pc = "update"
                    /\ \E c \in contacts : c.id = r.existing /\ c.email = r.email
            /\ r.existing = 0 => r.tries["update"] = 0 /\ r.pc # "update"
            /\ r.existing # 0 =>
                /\ r.tries["create"] = 0 /\ r.pc # "create"
                /\ r.sent["update"] > 0 => r.patchId = r.existing
            /\ r.contactId # 0 =>
                /\ (r.sent["update"] > 0) # (r.sent["create"] > 0)
                /\ r.sent["update"] > 0 => r.contactId = r.existing
                /\ \E c \in contacts :
                    /\ c.id = r.contactId
                    /\ c.email = r.formEmail
                    /\ r.sent["create"] > 0 => c.by = started

\* The lookup was answered 404 at its first attempt and the create succeeded
\* at its first: the upsert returned the new contact's id.
C6_Witness ==
    \E p \in Procs :
        /\ run[p].pc = "list"
        /\ run[p].contactId # 0
        /\ run[p].sent["lookup"] = 1
        /\ run[p].sent["create"] = 1
        /\ run[p].sent["update"] = 0
        /\ \E c \in contacts : c.id = run[p].contactId /\ c.by = started

\* The record submitToHubSpot returns, from the outcome of the upsert and of
\* the form submission (the error caught, if any) and of the fallback.
C7_ResultWithoutList(r) ==
    IF r.caught = NoError
        THEN [success |-> TRUE, contactId |-> r.contactId, fallbackUsed |-> FALSE,
              message |-> MsgSaved]
        ELSE [success |-> FALSE, contactId |-> 0, fallbackUsed |-> r.fbOk,
              message |-> IF r.fbOk THEN MsgEmailSaved ELSE MsgNotSaved]

\* C7: the outcome of the list request never changes the result.  When the
\* list request fails for good the form submission is the next step (the
\* run succeeds at once where no form is configured), the
\* error never reaches the catch block (an error caught after the upsert is
\* the form submission's), and the record returned is the one the upsert,
\* the form submission and the fallback determine.
C7_ListNonFatal ==
    \A p \in Procs :
        LET r == run[p]
        IN  /\ (r.w.op = "list" /\ r.w.wr = "thrown") =>
                /\ \/ r.pc = "form"
                   \/ r.pc = "done" /\ ~(env.portalId /\ env.formId) /\ r.result.success
                /\ r.listFailed
                /\ r.caught = NoError
            /\ (r.contactId # 0 /\ r.caught # NoError) =>
                /\ r.w.op = "form"
                /\ r.caught = r.w.thrown
                /\ r.tries["form"] >= 1
            /\ (r.pc = "done" /\ r.tries["list"] > 0) =>
                r.formDone \/ r.tries["form"] >= 1
            /\ r.pc = "done" => r.result = C7_ResultWithoutList(r)

\* The list request failed three times, the form submission was sent and the
\* run succeeded.
C7_Witness ==
    \E p \in Procs :
        /\ run[p].pc = "done"
        /\ run[p].listFailed
        /\ run[p].sent["list"] = 3
        /\ run[p].sent["form"] = 1
        /\ run[p].result.success
        /\ run[p].result.contactId = run[p].contactId

\* The requests the contact upsert of run p has sent.
UpsertRequests(p) ==
    run[p].sent["lookup"] + run[p].sent["update"] + run[p].sent["create"]

\* C8 as stated: the contact upsert, the list membership and the form
\* submission each make at most 3 remote attempts in a run.
C8_Original ==
    \A p \in Procs :
        /\ UpsertRequests(p) <= 3
        /\ run[p].sent["list"] <= 3
        /\ run[p].sent["form"] <= 3

\* C8, amended: each operation run under the retry policy (the lookup, the
\* update or create, the list request, the form submission) makes at most 3
\* attempts in a run, so the list membership and the form submission make at
\* most 3 and the contact upsert, a lookup and a write, at most 6.
C8_AttemptsPerOperation ==
    \A p \in Procs :
        /\ \A op \in Ops \ {"fallback"} :
            /\ run[p].tries[op] <= 3
            /\ run[p].sent[op] <= run[p].tries[op]
        /\ run[p].tries["update"] = 0 \/ run[p].tries["create"] = 0
        /\ UpsertRequests(p) <= 6

\* The lookup and the create took 3 requests each, and so did the list
\* request and the form submission.
C8_Witness ==
    \E p \in Procs :
        /\ run[p].pc = "done"
        /\ run[p].sent["lookup"] = 3
        /\ run[p].sent["create"] = 3
        /\ UpsertRequests(p) = 6
        /\ run[p].sent["list"] = 3
        /\ run[p].sent["form"] = 3

\* The operations that go through hubspotRequest.
CoreOps == {"lookup", "update", "create", "list"}

\* C9: with no access token every core-API operation fails with the
\* configuration error before a request is sent and is not retried (one
\* attempt, no sleep); submitToHubSpot reports success = FALSE and no
\* contact is created or updated.
C9_NoToken ==
    ~env.token =>
        /\ contacts = {}
        /\ \A p \in Procs :
            LET r == run[p]
            IN  /\ \A op \in CoreOps : r.sent[op] = 0
                /\ r.tries["lookup"] <= 1
                /\ \A op \in CoreOps \ {"lookup"} : r.tries[op] = 0
                /\ r.w.sleeps = <<>>
                /\ r.w.wr # "sleeping"
                /\ r.w.attempt >= 1 =>
                    /\ r.w.op \in CoreOps
                    /\ r.w.attempt = 1
                    /\ r.w.wr = "thrown"
                    /\ r.w.thrown = ConfigError
                    /\ r.caught = ConfigError
                /\ r.contactId = 0
                /\ r.pc = "done" => ~r.result.success /\ r.result.contactId = 0

\* With no token the lookup was invoked once and sent nothing; the run
\* ended with success = FALSE.
C9_Witness ==
    \E p \in Procs :
        /\ ~env.token
        /\ run[p].pc = "done"
        /\ run[p].tries["lookup"] = 1
        /\ run[p].sent["lookup"] = 0
        /\ run[p].caught = ConfigError
        /\ ~run[p].result.success

\* What the claim calls having the form settings: a portal id and a form id.
C10_HasFormIds == env.portalId /\ env.formId

\* C10 as stated: with no list id no list request is sent, with no portal id
\* or no form id no form submission is sent, and in both cases the run
\* returns success = TRUE with the contact id whenever the upsert succeeded.
C10_Original ==
    \A p \in Procs :
        /\ ~env.listId => run[p].sent["list"] = 0
        /\ ~C10_HasFormIds => run[p].sent["form"] = 0
        /\ ((~env.listId \/ ~C10_HasFormIds) /\ run[p].pc = "done" /\ run[p].contactId # 0)
            => /\ run[p].result.success
               /\ run[p].result.contactId = run[p].contactId

\* The form submission of run p failed for good.
FormFailed(p) == run[p].w.op = "form" /\ run[p].w.wr = "thrown"

\* C10, amended: with no list id no list request is sent, with no portal id
\* or no form id no form submission is sent; with no portal or form id the
\* run returns success = TRUE with the contact id whenever the upsert
\* succeeded, and with no list id it does so whenever the upsert succeeded
\* and the form submission, if configured, did not fail.
C10_MissingOptionalConfig ==
    \A p \in Procs :
        /\ ~env.listId => run[p].sent["list"] = 0 /\ run[p].tries["list"] = 0
        /\ ~C10_HasFormIds => run[p].sent["form"] = 0 /\ run[p].tries["form"] = 0
        /\ (~C10_HasFormIds /\ run[p].pc = "done" /\ run[p].contactId # 0)
            => /\ run[p].result.success
               /\ run[p].result.contactId = run[p].contactId
        /\ (~env.listId /\ run[p].pc = "done" /\ run[p].contactId # 0)
            => /\ run[p].result.success <=> ~FormFailed(p)
               /\ run[p].result.success => run[p].result.contactId = run[p].contactId

\* With neither list id nor form settings the run succeeded on the upsert
\* alone, having sent neither request.
C10_Witness ==
    \E p \in Procs :
        /\ ~env.listId
        /\ ~C10_HasFormIds
        /\ run[p].pc = "done"
        /\ run[p].contactId # 0
        /\ run[p].sent["list"] = 0
        /\ run[p].sent["form"] = 0
        /\ run[p].result.success
        /\ run[p].result.contactId = run[p].contactId

\* The place of a step in the order of a run.
C11_Rank(pc) ==
    CASE pc = "lookup" -> 1
      [] pc \in {"update", "create"} -> 2
      [] pc = "list" -> 3
      [] pc = "form" -> 4
      [] pc = "fallback" -> 5
      [] pc = "done" -> 6
      [] OTHER -> 0

\* The operation at pc ended with this step: its withRetry call returned or
\* threw, or it had no request to make.
C11_StepOver(p) ==
    LET pc == run[p].pc
        w == run'[p].w
    IN  CASE pc \in {"lookup", "update", "create"} ->
                w.op = pc /\ w.wr \in {"returned", "thrown"}
          [] pc = "list" ->
                IF env.listId THEN w.op = pc /\ w.wr \in {"returned", "thrown"}
                              ELSE run'[p].tries["list"] = 0
          [] pc = "form" ->
                IF env.portalId /\ env.formId
                    THEN w.op = pc /\ w.wr \in {"returned", "thrown"}
                    ELSE run'[p].tries["form"] = 0
          [] OTHER -> TRUE

\* The steps that may follow the step at pc, given how it ended.
C11_Follows(p) ==
    LET pc == run[p].pc
        next == run'[p].pc
        threw == run'[p].w.wr = "thrown" /\ run'[p].w.op = pc
    IN  CASE pc = "lookup" ->
                IF threw THEN next = "fallback" ELSE next \in {"update", "create"}
          [] pc \in {"update", "create"} ->
                IF threw THEN next = "fallback" ELSE next = "list"
          [] pc = "list" -> next = "form"
          [] pc = "form" -> IF threw THEN next = "fallback" ELSE next = "done"
          [] pc = "fallback" -> next = "done"
          [] OTHER -> FALSE

\* C11: within a run the operations are sequential and ordered: lookup, then
\* create or update, then list membership, then form submission, then
\* success.  A request is sent only by the step the run is at; the run moves
\* on only when that step, retries included, is over, and only forward; no
\* list or form request is sent before the contact id is there; and the
\* fallback is reached only once the primary path has failed.
C11_Sequential ==
    /\ [](\A p \in Procs :
            LET r == run[p]
            IN  /\ (r.pc \in {"list", "form"} \/ r.tries["list"] > 0 \/ r.tries["form"] > 0)
                    => /\ r.contactId # 0
                       /\ r.sent["lookup"] >= 1
                       /\ r.sent["update"] + r.sent["create"] >= 1
                /\ (r.pc = "form" /\ env.listId) => r.tries["list"] >= 1
                /\ (r.pc = "fallback" \/ r.tries["fallback"] > 0) => r.caught # NoError
                /\ (r.w.wr = "sleeping" \/ (r.w.wr = "call" /\ r.w.attempt > 0))
                    => r.w.op = r.pc
                /\ (r.pc = "done" /\ r.result.success)
                    => r.contactId # 0 /\ r.tries["fallback"] = 0)
    /\ [][\A p \in Procs :
            started' = started =>
                /\ \A op \in Ops :
                    run'[p].sent[op] > run[p].sent[op] => run[p].pc = op
                /\ run'[p].pc # run[p].pc =>
                    /\ C11_Rank(run'[p].pc) > C11_Rank(run[p].pc)
                    /\ C11_StepOver(p)
                    /\ C11_Follows(p)]_vars

\* A run that succeeded after retries of the lookup, of the list request and
\* of the form submission.
C11_Witness ==
    \E p \in Procs :
        /\ run[p].pc = "done"
        /\ run[p].result.success
        /\ run[p].sent["lookup"] = 2
        /\ run[p].sent["create"] = 1
        /\ run[p].sent["list"] = 2
        /\ run[p].sent["form"] = 2

\* The most requests a run sends: 3 for the lookup, 3 for the write, 3 for
\* the list, 3 for the form and 1 for the fallback.
C12_MostRequests == 4 * MAX_ATTEMPTS + 1

\* The requests run p has sent or tried to send.
C12_Tries(p) ==
    run[p].tries["lookup"] + run[p].tries["update"] + run[p].tries["create"]
        + run[p].tries["list"] + run[p].tries["form"] + run[p].tries["fallback"]

\* C12: a run, once started, reaches a terminal outcome (it returns its
\* record) whenever each remote call responds or fails: no sequence of
\* failures keeps it retrying (its requests are bounded), and after the
\* outcome it sends nothing more (only a new invocation changes anything).
C12_Terminates ==
    /\ Running(Caller) ~> run[Caller].pc = "done"
    /\ [](\A p \in Procs : C12_Tries(p) <= C12_MostRequests)
    /\ [][\A p \in Procs :
            run[p].pc = "done" => (run'[p] = run[p] \/ started' = started + 1)]_vars

\* A run that ended on the fallback after three failed lookups.
C12_Witness ==
    \E p \in Procs :
        /\ run[p].pc = "done"
        /\ run[p].sent["lookup"] = 3
        /\ run[p].w.sleeps = <<500, 1000>>
        /\ run[p].tries["fallback"] = 1
        /\ ~run[p].result.success

\* calculatorResults.annualRevenueLost is above the deal threshold of 50,000.
C13_Above == Less(Whole(50000), calculatorResults.annualRevenueLost)

\* "37500.75"
C13_Amount == <<"3", "7", "5", "0", "0", ".", "7", "5">>

\* createHubSpotDeal has sent nothing and tried nothing.
C13_NoRequest == \A o \in DealOps : deal.tries[o] = 0 /\ deal.sent[o] = 0

\* C13 as stated: a deal is attempted only above 50,000; at 50,000 or below
\* the call is skipped with no request; at 50,001 a deal is requested with
\* amount 37500.75.
C13_Original ==
    /\ deal.sent["deal"] > 0 => C13_Above
    /\ (deal.pc # "idle" /\ ~C13_Above) =>
        /\ deal.pc = "done"
        /\ C13_NoRequest
        /\ deal.result.message = MsgDealSkipped
    /\ (deal.pc = "done" /\ calculatorResults.annualRevenueLost = Whole(50001)) =>
        /\ deal.sent["deal"] >= 1
        /\ deal.amount = C13_Amount

\* C13, amended: a deal is attempted only above 50,000; at 50,000 or below
\* the call is skipped with no request; above, the contact's details are
\* fetched first and the deal is requested once that fetch has returned, with
\* amount = annualRevenueLost * 0.25 * 3 to two decimals, 37500.75 at 50,001;
\* when the fetch fails the call ends with no deal requested.
C13_DealThreshold ==
    /\ deal.sent["deal"] > 0 => C13_Above
    /\ (deal.pc # "idle" /\ ~C13_Above) =>
        /\ deal.pc = "done"
        /\ C13_NoRequest
        /\ deal.result = [success |-> FALSE, dealId |-> 0, message |-> MsgDealSkipped]
    /\ (deal.pc # "idle" /\ C13_Above) =>
        /\ deal.pc = "fetch" \/ deal.tries["fetch"] >= 1
        /\ deal.result.message # MsgDealSkipped
        /\ (deal.pc = "deal" \/ deal.tries["deal"] > 0) =>
            /\ deal.sent["fetch"] >= 1
            /\ deal.caught = NoError \/ deal.w.op = "deal"
            /\ calculatorResults.annualRevenueLost = Whole(50001)
                => deal.amount = C13_Amount
            /\ calculatorResults.annualRevenueLost = <<5000001, 100>>
                => deal.amount = <<"3", "7", "5", "0", "0", ".", "0", "1">>
        /\ deal.pc = "done" =>
            \/ /\ deal.w.op = "fetch"
               /\ deal.w.wr = "thrown"
               /\ deal.tries["deal"] = 0
               /\ ~deal.result.success
            \/ /\ deal.w.op = "deal"
               /\ deal.sent["deal"] >= 1

\* At 50,001 the contact was fetched and the deal created, amount 37500.75.
C13_Witness ==
    /\ calculatorResults.annualRevenueLost = Whole(50001)
    /\ deal.pc = "done"
    /\ deal.result.success
    /\ deal.sent["fetch"] >= 1
    /\ deal.sent["deal"] = 1
    /\ deal.amount = C13_Amount

\* A step of createHubSpotDeal or of triggerEmailSequence: the record of one
\* of the two calls changes, other than by being cleared for a new submission.
C14_SecondaryStep ==
    \/ deal' # deal /\ deal' # IdleDeal
    \/ enroll' # enroll /\ enroll' # IdleEnroll

\* C14: createHubSpotDeal and triggerEmailSequence never raise.  A failure of
\* their requests, terminal or after the retries, ends the call with its own
\* record, success = FALSE; no step of either changes the record the primary
\* submission returned; and with no workflow id triggerEmailSequence sends
\* nothing.
C14_SecondaryNeverRaise ==
    /\ [](/\ deal.pc # "raised"
          /\ enroll.pc # "raised"
          /\ deal.pc \in {"fetch", "deal"} => ENABLED (SleepDeal \/ FetchContact \/ PostDeal)
          /\ enroll.pc = "enroll" => ENABLED (SleepEnroll \/ Enroll)
          /\ (deal.w.wr = "thrown") =>
                /\ deal.pc = "done"
                /\ deal.caught = deal.w.thrown
                /\ deal.result = [success |-> FALSE, dealId |-> 0,
                                  message |-> MsgDealFailed]
          /\ deal.pc = "done" =>
                (deal.result.success <=> (deal.w.op = "deal" /\ deal.w.wr = "returned"))
          /\ (enroll.w.wr = "thrown") =>
                /\ enroll.pc = "done"
                /\ enroll.caught = enroll.w.thrown
                /\ enroll.result = [success |-> FALSE, message |-> MsgNotEnrolled]
          /\ enroll.pc = "done" =>
                (enroll.result.success <=> enroll.w.wr = "returned")
          /\ ~env.workflowId =>
                /\ enroll.tries = 0
                /\ enroll.sent = 0
                /\ enroll.pc # "idle" =>
                    /\ enroll.pc = "done"
                    /\ enroll.result = [success |-> FALSE, message |-> MsgNotConfigured])
    /\ [][C14_SecondaryStep =>
            /\ run'[Caller].pc = "done"
            /\ run'[Caller].result = run[Caller].result
            /\ contacts' = contacts]_vars

\* After a successful submission the deal failed on its third 503 and the
\* enrollment on a 400.
C14_Witness ==
    /\ run[Caller].result.success
    /\ deal.pc = "done"
    /\ deal.sent["deal"] = 3
    /\ deal.caught = HubSpotApiError(503)
    /\ ~deal.result.success
    /\ enroll.pc = "done"
    /\ enroll.sent = 1
    /\ enroll.caught = HubSpotApiError(400)
    /\ ~enroll.result.success

\* The submission of the caller completed its upsert, list and form steps.
C15_Completed == run[Caller].pc = "done" /\ run[Caller].result.success

\* C15 as stated: a run whose upsert, list membership and form submission
\* have completed has, when it ends, attempted the deal if annualRevenueLost
\* is above 50,000 and the enrollment if a workflow is configured.
C15_Original ==
    C15_Completed =>
        /\ C13_Above => deal.pc # "idle"
        /\ env.workflowId => enroll.pc # "idle"

\* C15, amended: a run of submitToHubSpot ends when its upsert, list and form
\* steps have completed, having attempted neither the deal nor the
\* enrollment; these are attempted only by the calls of createHubSpotDeal and
\* triggerEmailSequence its caller makes afterwards, the first when
\* annualRevenueLost is above 50,000, the second when a workflow is
\* configured.
C15_SeparateCalls ==
    /\ [](/\ Running(Caller) =>
                /\ deal.pc = "idle" /\ C13_NoRequest
                /\ enroll.pc = "idle" /\ enroll.tries = 0
          /\ deal.pc = "done" =>
                ((deal.tries["fetch"] >= 1) <=> C13_Above)
          /\ enroll.pc = "done" =>
                ((enroll.tries >= 1) <=> env.workflowId))
    /\ [][(run'[Caller] # run[Caller] /\ run[Caller].pc # "done") =>
            (deal' = deal /\ enroll' = enroll)]_vars
    /\ [][(deal.pc = "idle" /\ deal'.pc # "idle") => run[Caller].pc = "done"]_vars
    /\ [][(enroll.pc = "idle" /\ enroll'.pc # "idle") => run[Caller].pc = "done"]_vars

\* After the run had succeeded its caller had the deal created and the
\* contact enrolled.
C15_Witness ==
    /\ C15_Completed
    /\ C13_Above
    /\ env.workflowId
    /\ deal.pc = "done"
    /\ deal.result.success
    /\ enroll.pc = "done"
    /\ enroll.result.success

\* x to the power k.
RECURSIVE C16_Pow(_, _)
C16_Pow(x, k) == IF k = 0 THEN <<1, 1>> ELSE Mul(x, C16_Pow(x, k - 1))

\* A figure adjusted by the margin, if there is one.
C16_Margin(inputs, value) ==
    IF inputs.grossMargin = Undefined
        THEN value
        ELSE Mul(value, Mul(inputs.grossMargin, <<1, 100>>))

\* The customers left after k years of churn.
C16_Remaining(inputs, k) ==
    Mul(inputs.numberOfCustomers,
        C16_Pow(Sub(<<1, 1>>, Mul(inputs.churnRate, <<1, 100>>)), k))

\* The loss of year k: the customers lost in it times what one brings a year.
C16_YearLoss(inputs, k) ==
    C16_Margin(inputs,
        Mul(Mul(C16_Remaining(inputs, k - 1), Mul(inputs.churnRate, <<1, 100>>)),
            Mul(inputs.averageOrderValue, inputs.purchaseFrequency)))

\* The losses of years 1 to y, summed.
RECURSIVE C16_Cumulative(_, _)
C16_Cumulative(inputs, y) ==
    IF y = 0 THEN <<0, 1>>
             ELSE Add(C16_Cumulative(inputs, y - 1), C16_YearLoss(inputs, y))

\* averageOrderValue = 100, numberOfCustomers = 1000, purchaseFrequency = 4,
\* churnRate = 20, no margin.
C16_Example(inputs) ==
    /\ inputs.averageOrderValue = <<100, 1>>
    /\ inputs.numberOfCustomers = <<1000, 1>>
    /\ inputs.purchaseFrequency = <<4, 1>>
    /\ inputs.churnRate = <<20, 1>>
    /\ inputs.grossMargin = Undefined

\* C16: for the example inputs calculateLifetimeValueLost gives 80000 at
\* year 1 and 195200 at year 3; for all inputs the value at a horizon is the
\* sum over the years up to it of that year's loss, which is the customers
\* remaining (the base less the customers lost in the years before) times
\* churnRate/100 times averageOrderValue * purchaseFrequency, margin-adjusted.
C16_YearByYear ==
    /\ calc.call = "results" =>
        /\ \A y \in {1, 3, 5} :
            calc.results.lifetimeValueLost[y] = C16_Cumulative(calc.inputs, y)
        /\ C16_Example(calc.inputs) =>
            /\ calc.results.lifetimeValueLost[1] = <<80000, 1>>
            /\ calc.results.lifetimeValueLost[3] = <<195200, 1>>
    /\ (calc.call = "projection" /\ ~calc.projection.raised) =>
        \A y \in DOMAIN calc.projection.projections :
            calc.projection.projections[y] = C16_Cumulative(calc.inputs, y)

\* The example inputs gave 80000 at year 1 and 195200 at year 3.
C16_Witness ==
    /\ calc.call = "results"
    /\ C16_Example(calc.inputs)
    /\ calc.results.lifetimeValueLost[1] = <<80000, 1>>
    /\ calc.results.lifetimeValueLost[3] = <<195200, 1>>

\* x > 0, x >= 0 and x > y for numbers.
C17_Positive(x) == x[1] > 0

C17_Greater(x, y) == Sub(x, y)[1] > 0

\* The savings of the three scenarios are strictly increasing from a first
\* that is at least 0.
C17_Strict(s10, s25, s50) ==
    /\ C17_Greater(s50, s25)
    /\ C17_Greater(s25, s10)
    /\ s10[1] >= 0

\* C17 as stated: for every valid input with churnRate > 0 the savings of the
\* 50%, 25% and 10% scenarios are strictly decreasing in that order and at
\* least 0, the annual savings and the three-year savings alike.
C17_Original ==
    (calc.call = "results" /\ C17_Positive(calc.inputs.churnRate)) =>
        LET s == calc.results.reducedChurnScenarios
        IN  /\ C17_Strict(s[1].annualSavings, s[2].annualSavings, s[3].annualSavings)
            /\ C17_Strict(s[1].threeYearSavings, s[2].threeYearSavings,
                          s[3].threeYearSavings)

\* C17, amended: for every valid input with churnRate > 0 and a gross margin
\* that is absent or above 0 the savings satisfy savings(50%) > savings(25%)
\* > savings(10%) >= 0, annual and three-year alike; with a gross margin of 0
\* every saving is 0; the scenarios are those of 10, 25 and 50 percent.
C17_SavingsOrdered ==
    calc.call = "results" =>
        LET s == calc.results.reducedChurnScenarios
            zero == \A i \in 1..3 : s[i].annualSavings = <<0, 1>>
                                    /\ s[i].threeYearSavings = <<0, 1>>
        IN  /\ <<s[1].reductionPercentage, s[2].reductionPercentage,
                 s[3].reductionPercentage>> = <<10, 25, 50>>
            /\ (C17_Positive(calc.inputs.churnRate) /\ calc.inputs.grossMargin # <<0, 1>>)
                => /\ C17_Strict(s[1].annualSavings, s[2].annualSavings,
                                 s[3].annualSavings)
                   /\ C17_Strict(s[1].threeYearSavings, s[2].threeYearSavings,
                                 s[3].threeYearSavings)
            /\ calc.inputs.grossMargin = <<0, 1>> => zero
            /\ calc.inputs.churnRate = <<0, 1>> => zero

\* The example inputs with a margin of 50: 4000 < 10000 < 20000 a year.
C17_Witness ==
    /\ calc.call = "results"
    /\ calc.inputs.averageOrderValue = <<100, 1>>
    /\ calc.inputs.numberOfCustomers = <<1000, 1>>
    /\ calc.inputs.purchaseFrequency = <<4, 1>>
    /\ calc.inputs.churnRate = <<20, 1>>
    /\ calc.inputs.grossMargin = <<50, 1>>
    /\ calc.results.reducedChurnScenarios[1].annualSavings = <<4000, 1>>
    /\ calc.results.reducedChurnScenarios[2].annualSavings = <<10000, 1>>
    /\ calc.results.reducedChurnScenarios[3].annualSavings = <<20000, 1>>
    /\ C17_Greater(calc.results.reducedChurnScenarios[3].threeYearSavings,
                   calc.results.reducedChurnScenarios[2].threeYearSavings)

\* x <= y for numbers.
C18_AtMost(x, y) == Sub(y, x)[1] >= 0

\* C18: the cumulative loss does not decrease as the horizon grows,
\* lifetimeValueLost[1] <= lifetimeValueLost[3] <= lifetimeValueLost[5] and
\* likewise between any two horizons requested together, and it is 0 at
\* every horizon when churnRate is 0.
C18_NonDecreasing ==
    /\ calc.call = "results" =>
        LET l == calc.results.lifetimeValueLost
        IN  /\ C18_AtMost(l[1], l[3])
            /\ C18_AtMost(l[3], l[5])
            /\ l[1][1] >= 0
            /\ calc.inputs.churnRate = <<0, 1>> =>
                \A y \in {1, 3, 5} : l[y] = <<0, 1>>
    /\ (calc.call = "projection" /\ ~calc.projection.raised) =>
        LET l == calc.projection.projections
        IN  /\ \A y, z \in DOMAIN l : y <= z => C18_AtMost(l[y], l[z])
            /\ calc.inputs.churnRate = <<0, 1>> =>
                \A y \in DOMAIN l : l[y] = <<0, 1>>

\* With a churn rate of 20 the loss grew from year 1 to 3 and from 3 to 5.
C18_Witness ==
    /\ calc.call = "results"
    /\ calc.inputs.churnRate = <<20, 1>>
    /\ calc.inputs.grossMargin = Undefined
    /\ C17_Greater(calc.results.lifetimeValueLost[3], calc.results.lifetimeValueLost[1])
    /\ C17_Greater(calc.results.lifetimeValueLost[5], calc.results.lifetimeValueLost[3])

\* numberOfCustomers * churnRate/100 * averageOrderValue * purchaseFrequency
C19_Unscaled(inputs) ==
    Mul(Mul(Mul(inputs.numberOfCustomers, Mul(inputs.churnRate, <<1, 100>>)),
            inputs.averageOrderValue),
        inputs.purchaseFrequency)

\* C19: calculateAnnualRevenueLost returns numberOfCustomers * churnRate/100
\* * averageOrderValue * purchaseFrequency, times grossMargin/100 when there
\* is a margin and as it is when there is none (as with a margin of 100, not
\* of 0); doubling any one of the four factors doubles the result; and the
\* inputs 1000, 20, 100, 4 with no margin give 80000.
C19_AnnualRevenueLost ==
    calc.call = "results" =>
        LET inputs == calc.inputs
            lost == calc.results.annualRevenueLost
            two == <<2, 1>>
        IN  /\ inputs.grossMargin = Undefined =>
                /\ lost = C19_Unscaled(inputs)
                /\ lost = calculateAnnualRevenueLost(
                            [inputs EXCEPT !.grossMargin = <<100, 1>>])
            /\ inputs.grossMargin # Undefined =>
                lost = Mul(C19_Unscaled(inputs), Mul(inputs.grossMargin, <<1, 100>>))
            /\ calculateAnnualRevenueLost(
                    [inputs EXCEPT !.numberOfCustomers = Mul(@, two)]) = Mul(lost, two)
            /\ calculateAnnualRevenueLost(
                    [inputs EXCEPT !.churnRate = Mul(@, <<1, 2>>)]) = Mul(lost, <<1, 2>>)
            /\ calculateAnnualRevenueLost(
                    [inputs EXCEPT !.averageOrderValue = Mul(@, two)]) = Mul(lost, two)
            /\ calculateAnnualRevenueLost(
                    [inputs EXCEPT !.purchaseFrequency = Mul(@, two)]) = Mul(lost, two)
            /\ C16_Example(inputs) => lost = <<80000, 1>>

\* The inputs 1000, 20, 100, 4 with no margin gave 80000.
C19_Witness ==
    /\ calc.call = "results"
    /\ C16_Example(calc.inputs)
    /\ calc.results.annualRevenueLost = <<80000, 1>>

\* The horizons of a list.
C20_Requested(years) == { years[i] : i \in 1..Len(years) }

\* C20: calculateLifetimeValueLost fails when the list of horizons is empty
\* and only then; otherwise the result has one entry for each distinct
\* horizon requested and none for another year, and the value of a horizon
\* is the one a request for that horizon alone gives.
C20_Horizons ==
    calc.call = "projection" =>
        /\ calc.projection.raised <=> calc.years = <<>>
        /\ ~calc.projection.raised =>
            /\ DOMAIN calc.projection.projections = C20_Requested(calc.years)
            /\ \A y \in C20_Requested(calc.years) :
                calc.projection.projections[y]
                    = calculateLifetimeValueLost(calc.inputs, <<y>>).projections[y]

\* Years 2 and 5 were requested: two entries, years 1, 3 and 4 not reported.
C20_Witness ==
    /\ calc.call = "projection"
    /\ calc.years = <<2, 5>>
    /\ calc.inputs.churnRate = <<20, 1>>
    /\ DOMAIN calc.projection.projections = {2, 5}
    /\ C17_Greater(calc.projection.projections[5], calc.projection.projections[2])

\* The inputs with churnRate multiplied by (1 - reduction/100).
C21_Adjusted(inputs, reduction) ==
    [inputs EXCEPT !.churnRate =
        Mul(@, Sub(<<1, 1>>, Mul(<<reduction, 1>>, <<1, 100>>)))]

\* The annual loss: the four factors multiplied, margin-adjusted.
C21_AnnualLoss(inputs) == C16_Margin(inputs, C19_Unscaled(inputs))

\* C21: calculateChurnReductionScenarios returns exactly three scenarios, for
\* the reductions 10, 25 and 50 in that order; the annualSavings of each is
\* the annual loss of the inputs less the annual loss with churnRate
\* multiplied by (1 - reduction/100), and its threeYearSavings the same
\* difference of the cumulative losses at year 3.
C21_Scenarios ==
    calc.call = "results" =>
        LET s == calc.results.reducedChurnScenarios
            reductions == <<10, 25, 50>>
        IN  /\ Len(s) = 3
            /\ \A i \in 1..3 :
                LET adjusted == C21_Adjusted(calc.inputs, reductions[i])
                IN  /\ s[i].reductionPercentage = reductions[i]
                    /\ s[i].annualSavings =
                        Sub(C21_AnnualLoss(calc.inputs), C21_AnnualLoss(adjusted))
                    /\ s[i].threeYearSavings =
                        Sub(C16_Cumulative(calc.inputs, 3), C16_Cumulative(adjusted, 3))

\* The example inputs: 8000, 20000 and 40000 saved a year; over three years
\* 15747.2 (= 78736/5), 40850 and 86800.
C21_Witness ==
    /\ calc.call = "results"
    /\ C16_Example(calc.inputs)
    /\ Len(calc.results.reducedChurnScenarios) = 3
    /\ calc.results.reducedChurnScenarios[1] =
        [reductionPercentage |-> 10, annualSavings |-> <<8000, 1>>,
         threeYearSavings |-> <<78736, 5>>]
    /\ calc.results.reducedChurnScenarios[2] =
        [reductionPercentage |-> 25, annualSavings |-> <<20000, 1>>,
         threeYearSavings |-> <<40850, 1>>]
    /\ calc.results.reducedChurnScenarios[3] =
        [reductionPercentage |-> 50, annualSavings |-> <<40000, 1>>,
         threeYearSavings |-> <<86800, 1>>]

\* x is a finite number above 0.
C22_Positive(x) == IsFinite(x) /\ x[1] > 0

\* score is a whole number nearest to x: they differ by 1/2 at most.
C22_Nearest(score, x) ==
    LET d == Sub(<<score, 1>>, x)
    IN  2 * Abs(d[1]) <= d[2]

\* C22: calculateLeadScore returns 10 when annualRevenueLost is not finite or
\* is 0 or below; otherwise a whole number nearest to
\* min(annualRevenueLost, 1,000,000) / 1,000,000 * 100; every score is a
\* whole number from 0 to 100 and every value of 1,000,000 or more scores 100.
C22_LeadScore ==
    lead.call = "properties" =>
        LET x == lead.annualRevenueLost
            million == <<1000000, 1>>
        IN  /\ lead.leadScore \in 0..100
            /\ ~C22_Positive(x) => lead.leadScore = 10
            /\ C22_Positive(x) =>
                C22_Nearest(lead.leadScore,
                    IF Sub(x, million)[1] >= 0 THEN <<100, 1>>
                                               ELSE Mul(x, <<1, 10000>>))
            /\ (C22_Positive(x) /\ Sub(x, million)[1] >= 0) => lead.leadScore = 100

\* A loss of 2,000,000 scored 100.
C22_Witness ==
    /\ lead.call = "properties"
    /\ lead.annualRevenueLost = <<2000000, 1>>
    /\ lead.leadScore = 100

\* C23: determineLifecycleStage returns the explicit stage unchanged when one
\* is supplied, whatever the score; otherwise salesqualifiedlead for a score
\* of 80 or more, marketingqualifiedlead for 60 to 79, lead for 40 to 59 and
\* subscriber below 40.
C23_LifecycleStage ==
    lead.call = "properties" =>
        /\ lead.explicitStage # "" => lead.lifecycleStage = lead.explicitStage
        /\ lead.explicitStage = "" =>
            /\ lead.leadScore \in 80..100 <=> lead.lifecycleStage = "salesqualifiedlead"
            /\ lead.leadScore \in 60..79 <=> lead.lifecycleStage = "marketingqualifiedlead"
            /\ lead.leadScore \in 40..59 <=> lead.lifecycleStage = "lead"
            /\ lead.leadScore \in 0..39 <=> lead.lifecycleStage = "subscriber"

\* A score of exactly 80, with no explicit stage, gave salesqualifiedlead.
C23_Witness ==
    /\ lead.call = "properties"
    /\ lead.explicitStage = ""
    /\ lead.leadScore = 80
    /\ lead.lifecycleStage = "salesqualifiedlead"

\* C30 as stated: over the finite values the lead score does not decrease as
\* annualRevenueLost grows, and no finite value above 0 scores below the 10
\* given to a value of 0 or less.
C30_Original ==
    (lead.call = "properties" /\ IsFinite(lead.annualRevenueLost)) =>
        /\ \A y \in Losses :
            (IsFinite(y) /\ Sub(y, lead.annualRevenueLost)[1] >= 0)
                => calculateLeadScore(y) >= lead.leadScore
        /\ lead.annualRevenueLost[1] > 0 => lead.leadScore >= 10

\* What the code does: the score does not decrease over the values above 0,
\* where it is the rounded hundredth of a percent of the capped value, but a
\* value above 0 and below 95,000 scores less than the 10 of a value of 0 or
\* below (50,000 scores 5, and 1 scores 0).
C30_MonotoneAboveZero ==
    lead.call = "properties" =>
        /\ C22_Positive(lead.annualRevenueLost) =>
            /\ \A y \in Losses :
                (IsFinite(y) /\ Sub(y, lead.annualRevenueLost)[1] >= 0)
                    => calculateLeadScore(y) >= lead.leadScore
            /\ lead.leadScore < 10 <=> Sub(lead.annualRevenueLost, <<95000, 1>>)[1] < 0
        /\ ~C22_Positive(lead.annualRevenueLost) => lead.leadScore = 10

\* A loss of 50,000 scored 5, below the 10 a loss of 0 scores.
C30_Witness ==
    /\ lead.call = "properties"
    /\ lead.annualRevenueLost = <<50000, 1>>
    /\ lead.leadScore = 5
    /\ calculateLeadScore(<<0, 1>>) = 10

\* The status of the response the last attempt of the withRetry call w got.
C24_LastStatus(w) == w.outcomes[Len(w.outcomes)].status

\* The withRetry call w is the lookup's and it returned on a response of
\* the given status.
C24_LookupReturned(w, status) ==
    /\ w.op = "lookup"
    /\ w.wr = "returned"
    /\ w.outcomes # <<>>
    /\ C24_LastStatus(w) = status

\* The run issued nothing but lookups so far: no create, update, list or
\* form request, and no attempt of one.
C24_NoWriteNoListNoForm(r) ==
    \A op \in {"create", "update", "list", "form"} : r.sent[op] = 0 /\ r.tries[op] = 0

\* C24: a contact write is issued only on the evidence of a completed lookup.
\* The run goes on to its create only from a lookup that returned on a 404,
\* to its update only from a lookup that returned on a 200 with the
\* contact's id, the id every PATCH is sent for; a run that created did not
\* update and one that updated did not create; and when the lookup threw
\* (an error not retried, or a retried one at the third attempt) the run
\* issues no create, update, list or form request: only the fallback is left.
C24_WriteAfterLookup ==
    /\ [](LET r == run[Caller]
          IN  /\ (r.pc = "create" \/ r.tries.create > 0) =>
                    /\ r.tries.lookup >= 1
                    /\ r.existing = 0
                    /\ r.tries.update = 0
              /\ (r.pc = "update" \/ r.tries.update > 0) =>
                    /\ r.tries.lookup >= 1
                    /\ r.existing # 0
                    /\ r.tries.create = 0
                    /\ r.sent.update > 0 => r.patchId = r.existing
              /\ (r.w.op = "lookup" /\ r.w.wr = "thrown") =>
                    /\ r.pc \in {"fallback", "done"}
                    /\ C24_NoWriteNoListNoForm(r)
                    /\ r.caught = r.w.thrown
                    /\ ~r.result.success
                    /\ \/ ~shouldRetry(r.w.thrown)
                       \/ r.w.attempt = MAX_ATTEMPTS)
    /\ [][(run'[Caller].pc = "create" /\ run[Caller].pc # "create") =>
            /\ run[Caller].pc = "lookup"
            /\ C24_LookupReturned(run'[Caller].w, 404)]_vars
    /\ [][(run'[Caller].pc = "update" /\ run[Caller].pc # "update") =>
            /\ run[Caller].pc = "lookup"
            /\ C24_LookupReturned(run'[Caller].w, 200)
            /\ \E c \in contacts : c.id = run'[Caller].existing
                                   /\ c.email = run[Caller].email]_vars

\* The lookup met a 503 three times and threw: the run ended having sent the
\* fallback and nothing else but the three lookups.
C24_Witness ==
    /\ run[Caller].pc = "done"
    /\ run[Caller].w.op = "lookup"
    /\ run[Caller].w.wr = "thrown"
    /\ run[Caller].w.thrown = HubSpotApiError(503)
    /\ run[Caller].sent.lookup = 3
    /\ run[Caller].sent.fallback = 1
    /\ C24_NoWriteNoListNoForm(run[Caller])

\* The idempotency key upsertContact makes of an email.
C25_Key(email) == ToLowerCase(Trim(email))

\* C25 as stated: the email create and update write into the contact is the
\* lowercased, trimmed value the lookup uses as key, so that submissions
\* whose emails differ in letter case or surrounding whitespace only address
\* one contact record: the second updates, it does not create.
C25_Original ==
    /\ \A c \in contacts : c.email = C25_Key(c.email)
    /\ \A c, d \in contacts : C25_Key(c.email) = C25_Key(d.email) => c = d

\* What the code does: the email written is formData.email as submitted,
\* which the lookup key of the same run is the lowercased, trimmed form of.
C25_WrittenAsSubmitted ==
    /\ \A c \in contacts : c.email \in Emails
    /\ [][\A c \in contacts' \ contacts :
            /\ c.email = run[Caller].formEmail
            /\ run[Caller].email = C25_Key(c.email)]_vars

\* The submission of " A" created a contact with that email; the one of "a"
\* that followed looked up "a", was answered 404 and created a second.
C25_Witness ==
    /\ Cardinality(contacts) = 2
    /\ \A c \in contacts : C25_Key(c.email) = <<"a">>
    /\ \E c \in contacts : c.email = <<SPACE, "A">> /\ c.email # C25_Key(c.email)
    /\ run[Caller].sent.create >= 1
    /\ run[Caller].email = <<"a">>

\* The requests of upsertContact, addContactToList and submitFormSubmission.
C26_ContactRequests(r) ==
    r.sent.lookup + r.sent.update + r.sent.create + r.sent.list + r.sent.form

\* C26 as stated: whenever submitToHubSpot returns fallbackUsed = true the
\* fallback request that was sent carried a non-empty email field; and a
\* submission whose email is empty issues no contact request and never
\* returns fallbackUsed = true.
C26_Original ==
    LET r == run[Caller]
    IN  r.pc = "done" =>
            /\ r.result.fallbackUsed =>
                /\ r.sent.fallback = 1
                /\ "email" \in fallbackFields(r.formEmail)
                /\ r.formEmail # <<>>
            /\ r.formEmail = <<>> =>
                /\ C26_ContactRequests(r) = 0
                /\ ~r.result.fallbackUsed

\* What the code does: a submission with an empty email issues no contact
\* request and goes to the fallback, whose request carries no email field;
\* fallbackUsed is what that request's response says, whatever it carried.
C26_FallbackWhateverCarried ==
    LET r == run[Caller]
    IN  r.pc = "done" =>
            /\ r.formEmail = <<>> =>
                /\ C26_ContactRequests(r) = 0
                /\ r.caught = EmailRequiredError
                /\ fallbackFields(r.formEmail) = {}
            /\ r.result.fallbackUsed <=> r.fbOk
            /\ r.result.fallbackUsed => r.sent.fallback = 1

\* A submission with an empty email ended with fallbackUsed = true and the
\* message that the email was saved, its one request having carried no email.
C26_Witness ==
    /\ run[Caller].pc = "done"
    /\ run[Caller].formEmail = <<>>
    /\ run[Caller].sent.fallback = 1
    /\ fallbackFields(run[Caller].formEmail) = {}
    /\ run[Caller].result.fallbackUsed
    /\ run[Caller].result.message = MsgEmailSaved

\* C27: every record submitToHubSpot returns has a contact id and
\* fallbackUsed = false when success = true, no contact id when success =
\* false (even when the contact had been upserted before a later step
\* failed), and success = false when fallbackUsed = true; its message is the
\* success message exactly when success = true, the message that the email
\* was saved exactly when fallbackUsed = true, and the message that the
\* details could not be saved exactly when both are false.
C27_ResultRecord ==
    LET r == run[Caller]
        res == r.result
    IN  r.pc = "done" =>
            /\ res.success => (res.contactId # 0 /\ res.contactId = r.contactId
                               /\ ~res.fallbackUsed)
            /\ ~res.success => res.contactId = 0
            /\ res.fallbackUsed => ~res.success
            /\ res.message = "Contact saved to HubSpot successfully." <=> res.success
            /\ res.message = "We saved your email while we resolve a HubSpot connection hiccup."
                    <=> res.fallbackUsed
            /\ res.message = "We could not save your details. Please try again later or reach out to hello@churnguard.ai."
                    <=> (~res.success /\ ~res.fallbackUsed)

\* The contact was created, then the form submission failed and the fallback
\* succeeded: the record has no contact id.
C27_Witness ==
    /\ run[Caller].pc = "done"
    /\ run[Caller].sent.create >= 1
    /\ run[Caller].contactId # 0
    /\ run[Caller].sent.form >= 1
    /\ ~run[Caller].result.success
    /\ run[Caller].result.contactId = 0
    /\ run[Caller].result.fallbackUsed
    /\ run[Caller].result.message = MsgEmailSaved

\* The submission the modal made last returned a record saying that neither
\* the details nor the email were saved.
C28_NothingSaved ==
    /\ run[Caller].pc = "done"
    /\ ~run[Caller].result.success
    /\ ~run[Caller].result.fallbackUsed

\* C28 as stated: when the submission made from the modal returns success =
\* false and fallbackUsed = false the modal does not enter its success state
\* and shows a failure message; the success state is entered only after a
\* submission whose details or email were saved.
C28_Original ==
    /\ modal.isSuccess =>
        /\ run[Caller].pc = "done"
        /\ run[Caller].result.success \/ run[Caller].result.fallbackUsed
    /\ (modal.pc = "idle" /\ modal.isOpen /\ C28_NothingSaved) =>
        (~modal.isSuccess /\ modal.submissionError)

\* What the code does: the record submitLeadCapture returns is not looked at.
\* The success state is entered whenever the call returns, and no failure
\* message is ever shown, since the call does not throw.
C28_SuccessWhateverReturned ==
    /\ [](/\ ~modal.submissionError
          /\ run[Caller].pc # "raised"
          /\ modal.isSuccess => run[Caller].pc = "done")
    /\ [][(modal.pc = "submitting" /\ modal'.pc = "idle") => modal'.isSuccess]_vars

\* Primary and fallback both failed, and the modal shows its success state
\* with no failure message.
C28_Witness ==
    /\ modal.isOpen
    /\ modal.pc = "idle"
    /\ modal.isSuccess
    /\ ~modal.submissionError
    /\ C28_NothingSaved
    /\ run[Caller].result.message = MsgNotSaved

\* The run of p issued a create after a lookup that found no contact.
C29_Created(p) ==
    /\ run[p].sent.lookup >= 1
    /\ run[p].existing = 0
    /\ run[p].sent.create >= 1

\* C29: submissions are not coordinated with one another.  A caller can
\* submit whatever the run of the other is at, and a run whose lookup found
\* no contact can issue its create whatever the other run did since; every
\* step changes the locals of one run and leaves those of the other as they
\* were; and each run that started reaches its own terminal outcome.
C29_Uncoordinated ==
    /\ [](\A p \in Procs :
            /\ (run[p].pc = "idle" /\ started < MaxRuns) => ENABLED ConcStart(p)
            /\ (run[p].pc = "create" /\ run[p].w.wr # "sleeping") => ENABLED ConcCreate(p)
            /\ Running(p) => ENABLED ConcStep(p)
            /\ run[p].pc # "raised")
    /\ [][\E p \in Procs : \A q \in Procs \ {p} : run'[q] = run[q]]_vars
    /\ \A p \in Procs : Running(p) ~> (run[p].pc = "done")

\* Both runs were for the same email, both lookups found no contact and both
\* runs issued a create; both ended, one with the contact saved and one not.
C29_Witness ==
    /\ run["p1"].email = run["p2"].email
    /\ C29_Created("p1")
    /\ C29_Created("p2")
    /\ run["p1"].pc = "done"
    /\ run["p2"].pc = "done"
    /\ run["p1"].result.success # run["p2"].result.success
    /\ Cardinality(contacts) = 1

====
